---- MODULE Spec2Model ----
(***************************************************************************)
(* A model of rubato's scheduler (Game.loop, src/rubato/game.py) and of    *)
(* the rigid body of src/rubato/sprite/rigidbody.py.                       *)
(*                                                                         *)
(* Time is counted in whole milliseconds (Time.now() is a millisecond      *)
(* tick count), so delta_time, fixed_delta and physics_counter are         *)
(* integers here and the arithmetic on them is exact.                      *)
(* Lengths (positions, separations) are counted in units of 0.00001, so    *)
(* that rounding to 4 decimal places is rounding to a multiple of 10.      *)
(***************************************************************************)
EXTENDS Integers, FiniteSets, Sequences, TLC

\* ------------------------------------------------------------------ bounds
MaxFrames == 3
MaxDelta == 3
MaxFixedDelta == 3
MaxCalls == 2
MaxOps == 3

\* --------------------------------------------------------------- constants
\* Game.RUNNING, Game.STOPPED, Game.PAUSED
RUNNING == 1
STOPPED == 2
PAUSED == 3

GameStates == {RUNNING, STOPPED, PAUSED}

\* The frame deltas the clock can measure (a frame lasts at least 1 ms).
Deltas == 1..MaxDelta
FixedDeltas == 1..MaxFixedDelta

VARIABLES
    \* --- Game / Time (scheduler)
    state,            \* Game.state
    hasScene,         \* whether Game.current is a scene (cls._scenes.get(cls._current))
    physics_counter,  \* Time.physics_counter
    delta_time,       \* Time.delta_time: the measured length of the previous frame
    fixed_delta,      \* Time.fixed_delta
    pc,               \* the position of Game.loop
    \* --- what the run has done so far (observations of the loop)
    do_physics,       \* params["do_physics"] of the rigid body in the current scene
    frames,           \* iterations completed
    fixedCount,       \* calls of curr._fixed_update()
    obs,              \* record of observations, see LoopInit
    \* --- rigid bodies
    bodies,           \* body id -> kinematic state
    last,             \* the last call on a body and what it did
    calls,            \* calls on bodies made so far
    deferred,         \* Time's queue of delayed calls: a sequence of [body, delay]
    \* --- the other static classes and the object heap
    heap,             \* the Polygon and RigidBody objects built so far
    clock,            \* Time's clock and frame cap, see ClockIdle
    game,             \* Game._scenes, _scene_id, _current, see GameIdle
    radio,            \* Radio.listeners and the Listener objects, see RadioIdle
    drawq             \* Draw._queue and what dumps have run, see DrawIdle

loopVars == <<state, hasScene, physics_counter, delta_time, fixed_delta, pc,
              do_physics, frames, fixedCount, obs>>
bodyVars == <<bodies, last, calls, deferred>>
auxVars == <<heap, clock, game, radio, drawq>>
vars == <<state, hasScene, physics_counter, delta_time, fixed_delta, pc,
          do_physics, frames, fixedCount, obs, bodies, last, calls, deferred,
          heap, clock, game, radio, drawq>>

\* =================================================================
\* Game.loop
\* =================================================================

\* Time.physics_counter += Time.delta_time
Accumulate(counter, delta) == counter + delta

\* Faulty variant: the catch-up loop runs only while the counter exceeds fixed_delta.
FixedLoopCondStrict(counter, fd) == counter > fd

\* The test of the catch-up loop giving up when more than one update is due.
FixedLoopCondCapped(counter, fd) == counter >= fd /\ counter < 2 * fd

\* while Time.physics_counter >= Time.fixed_delta
FixedLoopCond(counter, fd) == counter >= fd

\* Faulty variant: the counter is cleared after a fixed update.
AfterFixedUpdateReset(counter, fd) == 0

\* Time.physics_counter -= Time.fixed_delta
AfterFixedUpdate(counter, fd) == counter - fd

\* RigidBody.update: physics() runs if params["do_physics"] and in_frame
RunsPhysics(doPhysics, inFrame) == doPhysics /\ inFrame

\* The dt of one RigidBody.physics step: Time.delta_time("sec"), the length
\* of the previous frame.
PhysicsDt(frameDelta, fixedDelta) == frameDelta

\* The scene's variable-rate update (curr._update()) runs the update() of the
\* rigid body it holds; obs after that call.
BodyUpdateObs(o, inFrame) ==
    IF RunsPhysics(do_physics, inFrame)
    THEN [o EXCEPT !.physicsRuns = @ + 1,
                   !.physicsDts = @ \cup {PhysicsDt(delta_time, fixed_delta)}]
    ELSE o

\* The Time class when the loop starts: nothing accumulated yet, a first
\* delta_time (any non-negative value) and the configured fixed_delta.
TimeInit ==
    /\ physics_counter = 0
    /\ delta_time \in {0} \cup Deltas
    /\ fixed_delta \in FixedDeltas

\* What the current iteration has done so far: calls of Game.update, of the
\* scene's _update and _fixed_update, whether the paused branch was taken,
\* physics_counter when the iteration began, the step in which the state it
\* has now became STOPPED, if it is STOPPED, and the calls of
\* Time.process_calls.
NoFrame == [game |-> 0, scene |-> 0, fixed |-> 0, paused |-> FALSE, counter |-> 0,
            stopped |-> "no", drains |-> 0]

\* Game.state is a public attribute: the user's code run by a hook may
\* assign it.
UserCode == \E s \in GameStates : state' = s

\* obs after a hook has run: the step is remembered if it set STOPPED.
Hooked(o) ==
    [o EXCEPT !.frame.stopped = IF state' # STOPPED THEN "no"
                                ELSE IF state # STOPPED THEN pc ELSE @]

\* Line 154 without its test: only a quit event of the window ends the loop.
QuitPendingEventOnly(quitEvent, st) == quitEvent

\* Lines 154-161: Radio.handle() finds a quit event, either the window's or
\* the one pushed because the state is STOPPED.
QuitPending(quitEvent, st) == quitEvent \/ st = STOPPED

\* Game.quit assigning the state before it broadcasts.
QuitStateFirst(o, quitEvent, st) ==
    [o EXCEPT !.exitBroadcasts = @ + 1, !.windowQuit = quitEvent, !.exitSeen = STOPPED]

\* Lines 116-117: Game.quit broadcasts EXIT, whose listeners find Game.state
\* as it was (exitSeen), and then assigns STOPPED.
Quit(o, quitEvent, st) ==
    [o EXCEPT !.exitBroadcasts = @ + 1, !.windowQuit = quitEvent, !.exitSeen = st]

\* Game.start sets state = RUNNING and calls loop(); a scene may or may not
\* have been added before.
LoopInit ==
    /\ state = RUNNING
    /\ hasScene \in BOOLEAN
    /\ TimeInit
    /\ pc = "top"
    /\ do_physics \in BOOLEAN
    /\ frames = 0
    /\ fixedCount = 0
    /\ obs = [deltasUsed |-> {}, everPaused |-> FALSE,
              physicsRuns |-> 0, physicsDts |-> {}, exitBroadcasts |-> 0,
              gameUpdates |-> 0, sceneUpdates |-> 0, accumulated |-> 0,
              windowQuit |-> FALSE, exitSeen |-> 0, frame |-> NoFrame]

\* Lines 154-162: a STOPPED state pushes SDL_QUIT; Radio.handle() returns True on
\* a quit event and Game.quit() broadcasts EXIT, sets STOPPED and leaves the
\* process (sys.exit).
HandleQuit ==
    /\ pc = "top"
    /\ \E quitEvent \in BOOLEAN :
        /\ QuitPending(quitEvent, state)
        /\ obs' = Quit(obs, quitEvent, state)
        /\ state' = STOPPED
        /\ pc' = "exited"
    /\ UNCHANGED <<hasScene, physics_counter, delta_time, fixed_delta,
                   do_physics, frames, fixedCount>>
    /\ UNCHANGED <<bodyVars, auxVars>>

\* Lines 152-165: no quit event in the queue; the iteration goes on.
HandleEvents ==
    /\ pc = "top"
    /\ ~QuitPending(FALSE, state)
    /\ frames < MaxFrames
    /\ pc' = "update"
    /\ obs' = [obs EXCEPT !.frame = [NoFrame EXCEPT !.counter = physics_counter]]
    /\ UNCHANGED <<state, hasScene, physics_counter, delta_time, fixed_delta,
                   do_physics, frames, fixedCount>>
    /\ UNCHANGED <<bodyVars, auxVars>>

\* Lines 167-170: Time.process_calls() and the overridable Game.update(); the
\* user's code run here may set Game.state.
GameUpdate ==
    /\ pc = "update"
    /\ UserCode
    /\ obs' = Hooked([obs EXCEPT !.gameUpdates = @ + 1, !.frame.game = @ + 1,
                                 !.frame.drains = @ + 1])
    /\ pc' = "scene"
    /\ UNCHANGED <<hasScene, physics_counter, delta_time, fixed_delta,
                   do_physics, frames, fixedCount>>
    /\ UNCHANGED <<bodyVars, auxVars>>

\* Lines 172-173, 189-190: no current scene, Draw.clear().
NoScene ==
    /\ pc = "scene"
    /\ ~hasScene
    /\ pc' = "render"
    /\ UNCHANGED <<state, hasScene, physics_counter, delta_time, fixed_delta,
                   do_physics, frames, fixedCount, obs>>
    /\ UNCHANGED <<bodyVars, auxVars>>

\* The paused branch also accumulating the frame's delta.
PausedUpdateAccumulating ==
    /\ pc = "scene"
    /\ hasScene
    /\ state = PAUSED
    /\ UserCode
    /\ obs' = Hooked([obs EXCEPT !.everPaused = TRUE, !.frame.paused = TRUE])
    /\ physics_counter' = Accumulate(physics_counter, delta_time)
    /\ pc' = "render"
    /\ UNCHANGED <<hasScene, delta_time, fixed_delta,
                   do_physics, frames, fixedCount>>
    /\ UNCHANGED <<bodyVars, auxVars>>

\* Lines 174-176: curr._paused_update().
PausedUpdate ==
    /\ pc = "scene"
    /\ hasScene
    /\ state = PAUSED
    /\ UserCode
    /\ obs' = Hooked([obs EXCEPT !.everPaused = TRUE, !.frame.paused = TRUE])
    /\ pc' = "render"
    /\ UNCHANGED <<hasScene, physics_counter, delta_time, fixed_delta,
                   do_physics, frames, fixedCount>>
    /\ UNCHANGED <<bodyVars, auxVars>>

\* Lines 177-182: curr._update(), then the frame's delta is accumulated.
SceneUpdate ==
    /\ pc = "scene"
    /\ hasScene
    /\ state # PAUSED
    /\ UserCode
    /\ \E inFrame \in BOOLEAN :
        obs' = Hooked([BodyUpdateObs(obs, inFrame) EXCEPT
                           !.deltasUsed = @ \cup {delta_time},
                           !.sceneUpdates = @ + 1,
                           !.accumulated = @ + delta_time,
                           !.frame.scene = @ + 1])
    /\ physics_counter' = Accumulate(physics_counter, delta_time)
    /\ pc' = "fixed"
    /\ UNCHANGED <<hasScene, delta_time, fixed_delta, do_physics,
                   frames, fixedCount>>
    /\ UNCHANGED <<bodyVars, auxVars>>

\* Lines 184-186: one pass of the catch-up loop.
FixedUpdate ==
    /\ pc = "fixed"
    /\ FixedLoopCond(physics_counter, fixed_delta)
    /\ UserCode
    /\ fixedCount' = fixedCount + 1
    /\ obs' = Hooked([obs EXCEPT !.frame.fixed = @ + 1])
    /\ physics_counter' = AfterFixedUpdate(physics_counter, fixed_delta)
    /\ UNCHANGED <<hasScene, delta_time, fixed_delta, pc, do_physics, frames>>
    /\ UNCHANGED <<bodyVars, auxVars>>

\* Lines 184, 188: the catch-up loop ends; curr._draw().
FixedDone ==
    /\ pc = "fixed"
    /\ ~FixedLoopCond(physics_counter, fixed_delta)
    /\ pc' = "render"
    /\ UNCHANGED <<state, hasScene, physics_counter, delta_time, fixed_delta,
                   do_physics, frames, fixedCount, obs>>
    /\ UNCHANGED <<bodyVars, auxVars>>

\* Lines 192-214: Game.draw(), Draw.dump(), present, the capping delay, and the
\* clock: delta_time becomes the length of this frame (never 0, lines 210-211).
Render ==
    /\ pc = "render"
    /\ UserCode
    /\ \E d \in Deltas : delta_time' = d
    /\ frames' = frames + 1
    /\ obs' = Hooked(obs)
    /\ pc' = "top"
    /\ UNCHANGED <<hasScene, physics_counter, fixed_delta, do_physics,
                   fixedCount>>
    /\ UNCHANGED <<bodyVars, auxVars>>

LoopNext ==
    \/ HandleQuit
    \/ HandleEvents
    \/ GameUpdate
    \/ NoScene
    \/ PausedUpdate
    \/ SceneUpdate
    \/ FixedUpdate
    \/ FixedDone
    \/ Render


\* =================================================================
\* The parts of the program that a specification leaves untouched
\* =================================================================

\* No Polygon and no RigidBody has been built.
HeapIdle == [polys |-> << >>, rigid |-> << >>]

\* Time before the loop starts: the clock, the start and the length in
\* milliseconds of the last frame, the cap period, and the frames run.
ClockIdle == [now |-> 0, frame_start |-> 0, delta |-> 0, normal_delta |-> 0,
              frames |-> 0]

\* Scene names are numbers: n >= 0 is the string "scene" + str(n), -1 is the
\* empty string and every other negative number some other name.
EmptyName == -1

\* Nothing has been added yet, or the last _add and how it ended.
NoAdd == [unnamed |-> FALSE, name |-> EmptyName, failed |-> FALSE]

\* Game as the class body leaves it: no scene, _scene_id = 0, _current = "";
\* the loop has not begun. step is the place of the loop, curr its local
\* variable, began the value of _current when the iteration began, got the
\* scene methods called in the iteration, each with the scene it was called
\* on, iter the iterations done.
GameIdle == [scenes |-> {}, scene_id |-> 0, current |-> EmptyName, lastAdd |-> NoAdd,
             step |-> "events", curr |-> EmptyName, began |-> EmptyName,
             got |-> {}, fixed |-> 0, iter |-> 0]

\* Event keys that are listened for and broadcast.
EventKeys == {"KEYDOWN", "EXIT"}

\* No call has been made on the radio; else the last call, its argument (a
\* Listener or an event key), the exception it raised ("no": none) and, for
\* a broadcast, the listeners pinged, in the order of the pings, and how
\* many times each ping entered the body of the callback.
NoRadioCall == [op |-> "none", arg |-> 0, raised |-> "no", pings |-> << >>,
                entered |-> << >>]

\* Radio.listeners = {} and no Listener object. keys are the keys of the
\* dict and lists its values; objs are the Listener objects, one known by
\* its place in the list, with what its callback does when pinged.
RadioIdle == [keys |-> {}, lists |-> [e \in EventKeys |-> << >>], objs |-> << >>,
              last |-> NoRadioCall]

\* Draw._queue = [].
\* camera=None
NoCamera == [given |-> FALSE, z_index |-> 0]

\* No call has been made on Draw; else the last call, with the z_index and
\* camera of a queue_* call and the tasks a dump ran.
NoDrawCall == [op |-> "none", ran |-> << >>, raised |-> FALSE, z_index |-> 0,
               camera |-> NoCamera]

DrawIdle == [queue |-> << >>, next |-> 1, frame |-> 0, stopped |-> FALSE,
             last |-> NoDrawCall]

AuxIdle ==
    /\ heap = HeapIdle
    /\ clock = ClockIdle
    /\ game = GameIdle
    /\ radio = RadioIdle
    /\ drawq = DrawIdle

\* =================================================================
\* RigidBody: collide, bounce, overlap
\* =================================================================

None == "None"
\* A CollisionInfo (hit, with its sep), or the none SAT.overlap returns.
Info(sep) == [hit |-> TRUE, sep |-> sep]
NoInfo == [hit |-> FALSE, sep |-> [x |-> 0, y |-> 0]]
Bodies == {"a", "b"}
ColTypes == {"STATIC", "DYNAMIC"}

Vec(vx, vy) == [x |-> vx, y |-> vy]
VAdd(v, w) == Vec(v.x + w.x, v.y + w.y)
VSub(v, w) == Vec(v.x - w.x, v.y - w.y)
VNeg(v) == Vec(0 - v.x, 0 - v.y)
\* Vector / 2
VHalf(v) == Vec(v.x \div 2, v.y \div 2)
Abs(n) == IF n < 0 THEN 0 - n ELSE n

\* Math.sign
Sign(n) == IF n > 0 THEN 1 ELSE IF n < 0 THEN -1 ELSE 0

\* round(n, 4) on a length in units of 0.00001: the nearest multiple of 10,
\* a tie going to the even multiple.
Round4(n) ==
    LET q == n \div 10
        r == n % 10
    IN  IF r < 5 THEN 10 * q
        ELSE IF r > 5 THEN 10 * (q + 1)
        ELSE IF q % 2 = 0 THEN 10 * q ELSE 10 * (q + 1)

\* Vector.round(4)
VRound(v) == Vec(Round4(v.x), Round4(v.y))

\* What SAT.overlap can return: none, or a CollisionInfo with a separation
\* vector (in reference to self).
SepValues == {-12, 4, 10}
SatResults == {NoInfo} \cup {Info(Vec(sx, sy)) : sx \in SepValues, sy \in SepValues}

\* The velocity each body has when the first collision call is made.
StartVelocity == [a |-> Vec(3, 2), b |-> Vec(-1, 4)]

\* Faulty variant: the position is corrected towards other.
CollideOtherStaticInto(bs, self, other, sep) ==
    LET grounded == (Sign(sep.y) = 1)
    IN  [bs EXCEPT
            ![self].pos = VAdd(@, sep),
            ![self].grounded = grounded,
            ![self].velocity = Vec(IF Abs(sep.x) > 0 THEN 0 ELSE @.x,
                                   IF grounded THEN 0 ELSE @.y)]

\* Faulty variant: any collision stops the body on both axes.
CollideOtherStaticStop(bs, self, other, sep) ==
    [bs EXCEPT ![self].pos = VSub(@, sep),
               ![self].grounded = (Sign(sep.y) = 1),
               ![self].velocity = Vec(0, 0)]

\* Faulty variant: the grounded test of the other-is-STATIC branch is copied
\* without flipping its sign.
CollideSelfStaticSameSign(bs, self, other, sep) ==
    LET grounded == (Sign(sep.y) = 1)
    IN  [bs EXCEPT
            ![other].pos = VAdd(@, sep),
            ![other].grounded = grounded,
            ![other].velocity = Vec(IF Abs(sep.x) > 0 THEN 0 ELSE @.x,
                                    IF grounded THEN 0 ELSE @.y)]

\* Faulty variant: self takes the whole correction.
SplitCorrectionSelfOnly(bs, self, other, sep) ==
    [bs EXCEPT ![self].pos = VSub(@, sep)]

\* Lines 145-151 of collide: other is STATIC.
CollideOtherStatic(bs, self, other, sep) ==
    LET grounded == (Sign(sep.y) = 1)
    IN  [bs EXCEPT
            ![self].pos = VSub(@, sep),
            ![self].grounded = grounded,
            ![self].velocity = Vec(IF Abs(sep.x) > 0 THEN 0 ELSE @.x,
                                   IF grounded THEN 0 ELSE @.y)]

\* Lines 152-157 of collide: self is STATIC, other is not.
CollideSelfStatic(bs, self, other, sep) ==
    LET grounded == (Sign(sep.y) = -1)
    IN  [bs EXCEPT
            ![other].pos = VAdd(@, sep),
            ![other].grounded = grounded,
            ![other].velocity = Vec(IF Abs(sep.x) > 0 THEN 0 ELSE @.x,
                                    IF grounded THEN 0 ELSE @.y)]

\* Lines 158-160 of collide, 192-194 of bounce: neither is STATIC.
SplitCorrection(bs, self, other, sep) ==
    [bs EXCEPT ![self].pos = VSub(@, VHalf(sep)),
               ![other].pos = VAdd(@, VHalf(sep))]

\* Lines 145-160 of collide: the resolution of a collision with (rounded) sep.
CollideResolve(bs, self, other, sep) ==
    IF bs[other].col_type = "STATIC" THEN CollideOtherStatic(bs, self, other, sep)
    ELSE IF bs[self].col_type = "STATIC" THEN CollideSelfStatic(bs, self, other, sep)
    ELSE SplitCorrection(bs, self, other, sep)

\* Faulty variant: bounce always splits the correction between the two bodies.
BounceResolveSplit(bs, self, other, sep) ==
    SplitCorrection([bs EXCEPT ![self].grounded = (Sign(sep.y) = 1)], self, other, sep)

\* Lines 186-194 of bounce.
BounceResolve(bs, self, other, sep) ==
    LET g == [bs EXCEPT ![self].grounded = (Sign(sep.y) = 1)]
    IN  IF g[other].col_type = "STATIC" THEN [g EXCEPT ![self].pos = VSub(@, sep)]
        ELSE IF g[self].col_type = "STATIC" THEN [g EXCEPT ![other].pos = VAdd(@, sep)]
        ELSE SplitCorrection(g, self, other, sep)

\* Faulty variant: self.grounded is left as it was.
EnterCallKeep(bs, self) == bs

\* Lines 140 and 182: self.grounded = False.
EnterCall(bs, self) == [bs EXCEPT ![self].grounded = FALSE]

\* Faulty variant: the callback runs before the collision is resolved.
CallbackViewEarly(before, after) == before

\* Lines 162-163 and 196-197: the callback runs after the resolution, so what it
\* observes of the bodies is the state after it.
CallbackView(before, after) == after

\* Faulty variant: the call fires the callback but returns nothing.
OutcomeNoReturn(bs, info, seen) ==
    [bodies |-> bs, ret |-> NoInfo,
     cbCount |-> IF info.hit THEN 1 ELSE 0,
     cbArg |-> IF info.hit THEN {info} ELSE {},
     cbSeen |-> IF info.hit THEN {seen} ELSE {}]

\* The outcome of a call: the bodies when it returns, the value it returns,
\* how often the callback ran (lines 162-163: once if collision is not None),
\* what the callback was given and what it saw of the bodies.
Outcome(bs, info, seen) ==
    [bodies |-> bs, ret |-> info,
     cbCount |-> IF info.hit THEN 1 ELSE 0,
     cbArg |-> IF info.hit THEN {info} ELSE {},
     cbSeen |-> IF info.hit THEN {seen} ELSE {}]

\* RigidBody.collide
collide(bs, self, other, sat) ==
    LET entered == EnterCall(bs, self)
    IN  IF ~sat.hit THEN Outcome(entered, NoInfo, entered)
        ELSE LET sep == VRound(sat.sep)
                 resolved == CollideResolve(entered, self, other, sep)
             IN  Outcome(resolved, Info(sep), CallbackView(entered, resolved))

\* Faulty variant: bounce resets the grounded flag of both bodies on entry.
bounceResettingBoth(bs, self, other, sat) ==
    LET entered == EnterCall(EnterCall(bs, self), other)
    IN  IF ~sat.hit THEN Outcome(entered, NoInfo, entered)
        ELSE LET sep == VRound(sat.sep)
                 resolved == BounceResolve(entered, self, other, sep)
             IN  Outcome(resolved, Info(sep), CallbackView(entered, resolved))

\* RigidBody.bounce
bounce(bs, self, other, sat) ==
    LET entered == EnterCall(bs, self)
    IN  IF ~sat.hit THEN Outcome(entered, NoInfo, entered)
        ELSE LET sep == VRound(sat.sep)
                 resolved == BounceResolve(entered, self, other, sep)
             IN  Outcome(resolved, Info(sep), CallbackView(entered, resolved))

\* Faulty variant: overlap resolves the collision it detects.
overlapResolving(bs, self, other, sat) ==
    IF ~sat.hit THEN Outcome(bs, NoInfo, bs)
    ELSE LET resolved == SplitCorrection(bs, self, other, VRound(sat.sep))
         IN  Outcome(resolved, sat, resolved)

\* RigidBody.overlap
overlap(bs, self, other, sat) ==
    Outcome(bs, sat, bs)

\* The record of a call: the call and its SAT result, what it returned, what its
\* callback was given and saw, and the grounded flags as they were on entry.
\* NoCall: no collision call has been made yet.
NoCall ==
    [op |-> "none", self |-> None, other |-> None, sat |-> NoInfo, ret |-> NoInfo,
     cbCount |-> 0, cbArg |-> {}, cbSeen |-> {},
     wasGrounded |-> [b \in Bodies |-> FALSE]]

\* Two bodies as RigidBody.__init__ leaves them (grounded = False), with the
\* velocity they have picked up when the first collision call is made.
BodyInit ==
    /\ \E types \in [Bodies -> ColTypes] :
        bodies = [b \in Bodies |-> [pos |-> Vec(0, 0),
                                    velocity |-> StartVelocity[b],
                                    acceleration |-> Vec(0, 0),
                                    rotation |-> 0,
                                    angvel |-> 0,
                                    mass |-> 1,
                                    gravity |-> 0, friction |-> 1,
                                    min_speed |-> -60, max_speed |-> 60,
                                    grounded |-> FALSE,
                                    col_type |-> types[b]]]
    /\ last = NoCall
    /\ calls = 0
    /\ deferred = << >>
    /\ AuxIdle

Record(op, self, other, sat, out) ==
    [op |-> op, self |-> self, other |-> other, sat |-> sat, ret |-> out.ret,
     cbCount |-> out.cbCount, cbArg |-> out.cbArg, cbSeen |-> out.cbSeen,
     wasGrounded |-> [b \in Bodies |-> bodies[b].grounded]]

Collide(self, other) ==
    \E sat \in SatResults :
        LET out == collide(bodies, self, other, sat)
        IN  /\ calls < MaxCalls
            /\ calls' = calls + 1
            /\ bodies' = out.bodies
            /\ last' = Record("collide", self, other, sat, out)
            /\ UNCHANGED <<loopVars, deferred, auxVars>>

Bounce(self, other) ==
    \E sat \in SatResults :
        LET out == bounce(bodies, self, other, sat)
        IN  /\ calls < MaxCalls
            /\ calls' = calls + 1
            /\ bodies' = out.bodies
            /\ last' = Record("bounce", self, other, sat, out)
            /\ UNCHANGED <<loopVars, deferred, auxVars>>

Overlap(self, other) ==
    \E sat \in SatResults :
        LET out == overlap(bodies, self, other, sat)
        IN  /\ calls < MaxCalls
            /\ calls' = calls + 1
            /\ bodies' = out.bodies
            /\ last' = Record("overlap", self, other, sat, out)
            /\ UNCHANGED <<loopVars, deferred, auxVars>>

BodyNext ==
    \E self \in Bodies : \E other \in Bodies \ {self} :
        \/ Collide(self, other)
        \/ Bounce(self, other)
        \/ Overlap(self, other)

\* -----------------------------------------------------------------
\* The same calls with a callback that raises when it is invoked.
\* -----------------------------------------------------------------

\* Faulty variant: the engine undoes the resolution when the callback raises.
CallbackRaisesRollback(before, out) ==
    IF out.cbCount = 0
    THEN [bodies |-> out.bodies, raised |-> FALSE, returned |-> TRUE]
    ELSE [bodies |-> before, raised |-> TRUE, returned |-> FALSE]

\* Lines 162-164, 196-198, 217-219: callback(collision) is called outside any
\* try block, after the resolution; if it raises, the return statement is
\* never reached and the bodies stay as the resolution left them.
CallbackRaises(before, out) ==
    IF out.cbCount = 0
    THEN [bodies |-> out.bodies, raised |-> FALSE, returned |-> TRUE]
    ELSE [bodies |-> out.bodies, raised |-> TRUE, returned |-> FALSE]

RecordThrow(op, self, other, sat, out, thrown) ==
    [Record(op, self, other, sat, out) EXCEPT
        !.ret = IF thrown.returned THEN @ ELSE NoInfo]
    @@ [raised |-> thrown.raised, returned |-> thrown.returned]

CollideThrows(self, other) ==
    \E sat \in SatResults :
        LET out == collide(bodies, self, other, sat)
            thrown == CallbackRaises(bodies, out)
        IN  /\ calls < MaxCalls
            /\ calls' = calls + 1
            /\ bodies' = thrown.bodies
            /\ last' = RecordThrow("collide", self, other, sat, out, thrown)
            /\ UNCHANGED <<loopVars, deferred, auxVars>>

BounceThrows(self, other) ==
    \E sat \in SatResults :
        LET out == bounce(bodies, self, other, sat)
            thrown == CallbackRaises(bodies, out)
        IN  /\ calls < MaxCalls
            /\ calls' = calls + 1
            /\ bodies' = thrown.bodies
            /\ last' = RecordThrow("bounce", self, other, sat, out, thrown)
            /\ UNCHANGED <<loopVars, deferred, auxVars>>

OverlapThrows(self, other) ==
    \E sat \in SatResults :
        LET out == overlap(bodies, self, other, sat)
            thrown == CallbackRaises(bodies, out)
        IN  /\ calls < MaxCalls
            /\ calls' = calls + 1
            /\ bodies' = thrown.bodies
            /\ last' = RecordThrow("overlap", self, other, sat, out, thrown)
            /\ UNCHANGED <<loopVars, deferred, auxVars>>

ThrowNext ==
    \E self \in Bodies : \E other \in Bodies \ {self} :
        \/ CollideThrows(self, other)
        \/ BounceThrows(self, other)
        \/ OverlapThrows(self, other)

\* -----------------------------------------------------------------
\* Integration step and forces (RigidBody.physics, set_force, add_force,
\* set_impulse). Velocities are lengths per millisecond and accelerations
\* lengths per millisecond squared, so that every product with a frame delta
\* in whole milliseconds is an exact integer.
\* -----------------------------------------------------------------

VScale(v, k) == Vec(v.x * k, v.y * k)

\* Math.clamp on one component.
Clamp(n, lower, upper) ==
    IF n < lower THEN lower ELSE IF n > upper THEN upper ELSE n

\* Vector.clamp(lower, upper): every component brought into [lower, upper].
VClamp(v, lower, upper) == Vec(Clamp(v.x, lower, upper), Clamp(v.y, lower, upper))

\* Vector.absolute(): called, like clamp and round, as a statement on the
\* vector it changes; every component becomes its absolute value.
VAbsolute(v) == Vec(Abs(v.x), Abs(v.y))

\* "Update Velocity": acceleration (gravity on y only) times dt is added, the
\* sum is scaled by the friction, the product is clamped and the absolute
\* value of the outcome is taken.
physicsVelocity(b, dt) ==
    LET accelerated == Vec(b.velocity.x + b.acceleration.x * dt,
                           b.velocity.y + (b.acceleration.y + b.gravity) * dt)
        damped == VScale(accelerated, b.friction)
    IN  VAbsolute(VClamp(damped, b.min_speed, b.max_speed))

\* The position moved by the velocity the step started with.
physicsMoveOldVelocity(b, v, dt) ==
    [b EXCEPT !.velocity = v,
              !.pos = VAdd(b.pos, VScale(b.velocity, dt)),
              !.rotation = b.rotation + b.angvel * dt]

\* "Update position" and "Update rotation", with the velocity just computed.
physicsMove(b, v, dt) ==
    [b EXCEPT !.velocity = v,
              !.pos = VAdd(b.pos, VScale(v, dt)),
              !.rotation = b.rotation + b.angvel * dt]

physics(b, dt) == physicsMove(b, physicsVelocity(b, dt), dt)

\* force / mass for a mass other than 0; the forces used are multiples of
\* the masses used, so the quotient is exact.
Quotient(n, m) == IF m > 0 THEN IF n >= 0 THEN n \div m ELSE 0 - ((0 - n) \div m)
                  ELSE IF n >= 0 THEN 0 - (n \div (0 - m)) ELSE (0 - n) \div (0 - m)

VQuotient(f, m) == Vec(Quotient(f.x, m), Quotient(f.y, m))

\* Division by a mass of 0 raises ZeroDivisionError before anything is assigned.
Raises(b) == b.mass = 0

\* set_force adding to the acceleration it finds.
set_forceAdding(b, force) ==
    [b EXCEPT !.acceleration = VAdd(b.acceleration, VQuotient(force, b.mass))]

set_force(b, force) == [b EXCEPT !.acceleration = VQuotient(force, b.mass)]

add_force(b, force) ==
    [b EXCEPT !.acceleration = VAdd(b.acceleration, VQuotient(force, b.mass))]

\* Time.delayed_call(time, fn): one more entry in the queue of delayed calls;
\* fn is the lambda of set_impulse, which only needs the body.
delayed_call(queue, self, time) == Append(queue, [body |-> self, delay |-> time])

\* The lambda of set_impulse leaving the force in place.
ImpulseEndKeep(b) == b

\* The lambda of set_impulse sparing an acceleration that has an x
\* component, as a force set after the impulse has in this model.
ImpulseEndConditional(b) ==
    IF b.acceleration.x # 0 THEN b ELSE [b EXCEPT !.acceleration = Vec(0, 0)]

\* The lambda of set_impulse: self.set_force(Vector()).
ImpulseEnd(b) == set_force(b, Vec(0, 0))

RemoveAt(queue, i) == SubSeq(queue, 1, i - 1) \o SubSeq(queue, i + 1, Len(queue))

Masses == {-2, 0, 2, 10}
Forces == {Vec(0, -500), Vec(20, 10)}
ImpulseTimes == {100, 500}

\* The options a body is built with, apart from its mass.
BodyOptions ==
    {[gravity |-> 10, friction |-> 1, min_speed |-> -60, max_speed |-> 60],
     [gravity |-> 0, friction |-> 2, min_speed |-> -40, max_speed |-> 100]}

\* RigidBody.__init__: the options are merged with the defaults and stored;
\* the mass is stored as given.
RigidBodyInit(options) == [failed |-> FALSE, options |-> options]

NewBody(options, angvel) ==
    [pos |-> Vec(0, 0), velocity |-> Vec(0, 0), acceleration |-> Vec(0, 0),
     rotation |-> 0, angvel |-> angvel, mass |-> options.mass,
     gravity |-> options.gravity, friction |-> options.friction,
     min_speed |-> options.min_speed, max_speed |-> options.max_speed,
     grounded |-> FALSE, col_type |-> "DYNAMIC"]

NoOp == [op |-> "none", self |-> None, dt |-> 0, force |-> Vec(0, 0),
         time |-> 0, raised |-> FALSE, was |-> Vec(0, 0)]

\* What is remembered of a call: its arguments, whether it raised, and the
\* acceleration the body had when it was made.
Op(op, self, dt, force, time, raised) ==
    [op |-> op, self |-> self, dt |-> dt, force |-> force, time |-> time,
     raised |-> raised, was |-> bodies[self].acceleration]

\* Two bodies out of the constructor, each with the angular velocity its
\* owner gave it afterwards; no call is pending.
PhysicsInit ==
    /\ \E ma \in Masses : \E oa \in BodyOptions :
        LET ca == RigidBodyInit(oa @@ [mass |-> ma])
            cb == RigidBodyInit([gravity |-> 0, friction |-> 1, min_speed |-> -60,
                                 max_speed |-> 60, mass |-> 10])
        IN  /\ ~ca.failed
            /\ ~cb.failed
            /\ bodies = [b \in Bodies |->
                            IF b = "a" THEN NewBody(ca.options, 3)
                            ELSE NewBody(cb.options, 0)]
    /\ last = NoOp
    /\ calls = 0
    /\ deferred = << >>
    /\ AuxIdle

\* RigidBody.update with do_physics set and the body in frame: one step.
Physics(self) ==
    \E dt \in Deltas :
        /\ calls < MaxOps
        /\ calls' = calls + 1
        /\ bodies' = [bodies EXCEPT ![self] = physics(bodies[self], PhysicsDt(dt, fixed_delta))]
        /\ last' = Op("physics", self, dt, Vec(0, 0), 0, FALSE)
        /\ UNCHANGED <<loopVars, deferred, auxVars>>

SetForce(self) ==
    \E force \in Forces :
        /\ calls < MaxOps
        /\ calls' = calls + 1
        /\ bodies' = IF Raises(bodies[self]) THEN bodies
                     ELSE [bodies EXCEPT ![self] = set_force(bodies[self], force)]
        /\ last' = Op("set_force", self, 0, force, 0, Raises(bodies[self]))
        /\ UNCHANGED <<loopVars, deferred, auxVars>>

AddForce(self) ==
    \E force \in Forces :
        /\ calls < MaxOps
        /\ calls' = calls + 1
        /\ bodies' = IF Raises(bodies[self]) THEN bodies
                     ELSE [bodies EXCEPT ![self] = add_force(bodies[self], force)]
        /\ last' = Op("add_force", self, 0, force, 0, Raises(bodies[self]))
        /\ UNCHANGED <<loopVars, deferred, auxVars>>

\* set_impulse: set_force, then the registration; an exception in set_force
\* leaves the registration out.
SetImpulse(self) ==
    \E force \in Forces : \E time \in ImpulseTimes :
        /\ calls < MaxOps
        /\ calls' = calls + 1
        /\ bodies' = IF Raises(bodies[self]) THEN bodies
                     ELSE [bodies EXCEPT ![self] = set_force(bodies[self], force)]
        /\ deferred' = IF Raises(bodies[self]) THEN deferred
                       ELSE delayed_call(deferred, self, time)
        /\ last' = Op("set_impulse", self, 0, force, time, Raises(bodies[self]))
        /\ UNCHANGED <<loopVars, auxVars>>

\* Time.process_calls running one delayed call whose delay has passed; the
\* call leaves the queue and its lambda runs.
FireDeferred ==
    \E i \in 1..Len(deferred) :
        LET call == deferred[i]
        IN  /\ calls < MaxOps
            /\ calls' = calls + 1
            /\ bodies' = [bodies EXCEPT ![call.body] = ImpulseEnd(bodies[call.body])]
            /\ deferred' = RemoveAt(deferred, i)
            /\ last' = Op("fire", call.body, 0, Vec(0, 0), call.delay, FALSE)
            /\ UNCHANGED <<loopVars, auxVars>>

PhysicsNext ==
    \/ \E self \in Bodies :
        \/ Physics(self)
        \/ SetForce(self)
        \/ AddForce(self)
        \/ SetImpulse(self)
    \/ FireDeferred

\* -----------------------------------------------------------------
\* RigidBody.__init__ and its hitbox (lines 55-57). heap.polys is the list of
\* Polygon objects in the order they were made, an object being known by its
\* place in the list; pos_of and rot_of name the body whose pos and rotation
\* the _pos and _rotation of the polygon read (0: no body). heap.rigid is the
\* list of RigidBody objects.
\* -----------------------------------------------------------------

MaxPolys == 5
MaxBuilt == 3
Poses == {[pos |-> Vec(0, 0), rotation |-> 0], [pos |-> Vec(10, -10), rotation |-> 1]}

Unbound == [pos_of |-> 0, rot_of |-> 0]

\* Faulty variant: the body keeps the hitbox of its options.
cloneAlias(polys, h) == [polys |-> polys, ref |-> h]

\* Polygon.clone(): a new Polygon object with the contents of the old one.
clone(polys, h) == [polys |-> Append(polys, polys[h]), ref |-> Len(polys) + 1]

\* Lines 55-57: self.hitbox = self.params["hitbox"].clone(), whose _pos and
\* _rotation become lambdas reading self.pos and self.rotation.
NewRigidBody(hp, h, pose) ==
    LET cloned == clone(hp.polys, h)
        self == Len(hp.rigid) + 1
    IN  [polys |-> [cloned.polys EXCEPT ![cloned.ref] = [pos_of |-> self, rot_of |-> self]],
         rigid |-> Append(hp.rigid, [hitbox |-> cloned.ref, options |-> h,
                                     pos |-> pose.pos, rotation |-> pose.rotation])]

\* What a hitbox reads through its _pos() and _rotation().
HitboxPose(hp, h) ==
    [pos |-> hp.rigid[hp.polys[h].pos_of].pos,
     rotation |-> hp.rigid[hp.polys[h].rot_of].rotation]

\* The user's code makes a Polygon.
NewPolygon ==
    /\ Len(heap.polys) < MaxPolys
    /\ heap' = [heap EXCEPT !.polys = Append(@, Unbound)]
    /\ UNCHANGED <<loopVars, bodyVars, clock, game, radio, drawq>>

\* RigidBody({"hitbox": h, "pos": ..., "rotation": ...}), h being any Polygon
\* there is, the hitbox of another body included.
ConstructBody ==
    \E h \in 1..Len(heap.polys) : \E pose \in Poses :
        /\ Len(heap.polys) < MaxPolys
        /\ Len(heap.rigid) < MaxBuilt
        /\ heap' = NewRigidBody(heap, h, pose)
        /\ UNCHANGED <<loopVars, bodyVars, clock, game, radio, drawq>>

\* A body is moved and turned (physics, a collision, the user's code).
SetPose ==
    \E b \in 1..Len(heap.rigid) : \E pose \in Poses :
        /\ heap' = [heap EXCEPT !.rigid[b].pos = pose.pos,
                                !.rigid[b].rotation = pose.rotation]
        /\ UNCHANGED <<loopVars, bodyVars, clock, game, radio, drawq>>

HitboxNext == NewPolygon \/ ConstructBody \/ SetPose

\* -----------------------------------------------------------------
\* The clock of Game.loop with the frame rate capped (lines 152, 202-214).
\* All times are whole milliseconds, as Time.now() counts them.
\* -----------------------------------------------------------------

MaxWork == 3
NormalDeltas == {2, 5}
Works == 0..MaxWork

\* Line 204: delay = Time.normal_delta - (1000 * Time.delta_time), where
\* Time.delta_time still is the length of the frame before this one.
CapDelay(normal_delta, delta) == normal_delta - delta

\* Lines 205-206: SDL_Delay(int(delay)) if delay > 0.
AfterDelay(t, delay) == IF delay > 0 THEN t + delay ELSE t

\* Lines 210-211: while Time.now() == Time.frame_start: SDL_Delay(1).
AfterFailsafe(t, frame_start) == IF t = frame_start THEN t + 1 ELSE t

\* Time.capped is set, delta_time is what Time starts with, the clock is at 0.
ClockInit ==
    \E nd \in NormalDeltas : \E d \in {0, 1} :
        clock = [ClockIdle EXCEPT !.normal_delta = nd, !.delta = d]

\* One iteration of the loop whose lines 153-200 take `work` milliseconds.
CappedFrame ==
    \E work \in Works :
        LET start == clock.now
            done == AfterFailsafe(AfterDelay(start + work,
                                             CapDelay(clock.normal_delta, clock.delta)),
                                  start)
        IN  /\ clock.frames < MaxFrames
            /\ clock' = [clock EXCEPT !.now = done,
                                      !.frame_start = start,
                                      !.delta = done - start,
                                      !.frames = @ + 1]
            /\ UNCHANGED <<loopVars, bodyVars, heap, game, radio, drawq>>

\* -----------------------------------------------------------------
\* Game._add, Game.set_scene, Game.current and what Game.loop does with them
\* (lines 160-192, as far as the choice of the scene goes).
\* -----------------------------------------------------------------

MaxScenes == 3
SceneNames == {-2, 0, 1, 2}

\* Lines 82-83: name = "scene" + str(cls._scene_id) if name is None.
AddName(g, unnamed, name) == IF unnamed THEN g.scene_id ELSE name

\* Game._add: IdError if the name is taken (nothing has been changed by
\* then); else the first scene becomes the current one, the scene is stored
\* and _scene_id goes up by one.
_add(g, unnamed, name) ==
    LET n == AddName(g, unnamed, name)
    IN  IF n \in g.scenes
        THEN [g EXCEPT !.lastAdd = [unnamed |-> unnamed, name |-> n, failed |-> TRUE]]
        ELSE [g EXCEPT !.current = IF g.scenes = {} THEN n ELSE @,
                       !.scenes = @ \cup {n},
                       !.scene_id = @ + 1,
                       !.lastAdd = [unnamed |-> unnamed, name |-> n, failed |-> FALSE]]

\* Game.set_scene
set_scene(g, scene_id) == [g EXCEPT !.current = scene_id]

\* Game.current: cls._scenes.get(cls._current); EmptyName stands for None.
current(g) == IF g.current \in g.scenes THEN g.current ELSE EmptyName

\* The user's code run by a hook: it may call Game.set_scene with the name
\* of a scene.
MaySetScene(g) == {g} \cup {set_scene(g, n) : n \in g.scenes}

\* A scene is added, with a name or without one, before the loop starts.
AddScene ==
    \E unnamed \in BOOLEAN : \E name \in SceneNames :
        /\ game.iter = 0
        /\ game.step = "events"
        /\ game.scene_id < MaxScenes
        /\ unnamed => name = 0
        /\ game' = _add(game, unnamed, name)
        /\ UNCHANGED <<loopVars, bodyVars, heap, clock, radio, drawq>>

\* Lines 160-170: the listeners run by Radio.handle(), the delayed calls run
\* by Time.process_calls(), then Game.update(), each a place for the user's
\* code; a new iteration begins with the first of them.
BeforeCurrent ==
    /\ game.step \in {"events", "calls", "update"}
    /\ game.iter < MaxFrames
    /\ game.scenes # {}
    /\ LET g == IF game.step = "events"
                THEN [game EXCEPT !.began = game.current, !.got = {}, !.fixed = 0]
                ELSE game
           next == IF game.step = "events" THEN "calls"
                   ELSE IF game.step = "calls" THEN "update" ELSE "take"
       IN  \E h \in MaySetScene(g) : game' = [h EXCEPT !.step = next]
    /\ UNCHANGED <<loopVars, bodyVars, heap, clock, radio, drawq>>

\* Line 172: curr = cls.current
TakeCurrent ==
    /\ game.step = "take"
    /\ game' = [game EXCEPT !.curr = current(game), !.step = "scene"]
    /\ UNCHANGED <<loopVars, bodyVars, heap, clock, radio, drawq>>

\* Lines 174-179: curr._update() (or curr._paused_update()).
UpdateCurr ==
    /\ game.step = "scene"
    /\ \E h \in MaySetScene(game) :
        game' = [h EXCEPT !.got = @ \cup {<<"update", game.curr>>}, !.step = "fixed"]
    /\ UNCHANGED <<loopVars, bodyVars, heap, clock, radio, drawq>>

\* Lines 184-186: curr._fixed_update(), as often as the counter asks.
FixedUpdateCurr ==
    /\ game.step = "fixed"
    /\ game.fixed < MaxDelta
    /\ \E h \in MaySetScene(game) :
        game' = [h EXCEPT !.got = @ \cup {<<"fixed", game.curr>>}, !.fixed = @ + 1]
    /\ UNCHANGED <<loopVars, bodyVars, heap, clock, radio, drawq>>

\* Line 188: curr._draw()
DrawCurr ==
    /\ game.step = "fixed"
    /\ \E h \in MaySetScene(game) :
        game' = [h EXCEPT !.got = @ \cup {<<"draw", game.curr>>}, !.step = "gamedraw"]
    /\ UNCHANGED <<loopVars, bodyVars, heap, clock, radio, drawq>>

\* Lines 192-214: Game.draw() and the end of the iteration.
GameDraw ==
    /\ game.step = "gamedraw"
    /\ \E h \in MaySetScene(game) :
        game' = [h EXCEPT !.step = "events", !.iter = @ + 1]
    /\ UNCHANGED <<loopVars, bodyVars, heap, clock, radio, drawq>>

GameNext ==
    \/ AddScene
    \/ BeforeCurrent
    \/ TakeCurrent
    \/ UpdateCurr
    \/ FixedUpdateCurr
    \/ DrawCurr
    \/ GameDraw

\* -----------------------------------------------------------------
\* Radio and Listener (radio.py).
\* -----------------------------------------------------------------

MaxListeners == 3

\* What the body of a callback may do: nothing to the radio, remove its own
\* listener (a listener that is to hear one event only), register the
\* listener made first, or raise TypeError.
CallbackKinds == {"quiet", "remove", "register"}
BodyKinds == {"quiet", "typeerror"}

\* The listener a callback of kind "register" registers.
Enlisted == 1

\* What a callback can be called with: one argument only (def f(params)),
\* one or none (def f(params=None)), none only (def f()).
Signatures == {"params", "optional", "none"}

\* cls.listeners.get(event, [])
ListenersOf(r, event) == IF event \in r.keys THEN r.lists[event] ELSE << >>

\* listener in Radio.listeners[event]
InList(list, l) == \E i \in 1..Len(list) : list[i] = l

\* list.remove(l), for a list that holds l
ListRemove(list, l) ==
    LET i == CHOOSE k \in 1..Len(list) : list[k] = l /\ \A j \in 1..(k - 1) : list[j] # l
    IN  SubSeq(list, 1, i - 1) \o SubSeq(list, i + 1, Len(list))

\* Listener.remove: Radio.listeners[self.event] raises KeyError when the dict
\* has no such key, which no except clause catches; list.remove raises
\* ValueError when the list does not hold the listener, which is raised anew;
\* else the listener leaves the list and registered becomes False.
ListenerRemove(r, l) ==
    LET event == r.objs[l].event
    IN  IF event \notin r.keys THEN [radio |-> r, raised |-> "KeyError"]
        ELSE IF ~InList(r.lists[event], l) THEN [radio |-> r, raised |-> "ValueError"]
        ELSE [radio |-> [r EXCEPT !.lists[event] = ListRemove(@, l),
                                  !.objs[l].registered = FALSE],
              raised |-> "no"]

\* Radio.register without its test of the registered flag.
RadioRegisterUnchecked(r, l) ==
    LET event == r.objs[l].event
        flagged == [r EXCEPT !.objs[l].registered = TRUE]
    IN  IF event \in r.keys
        THEN [radio |-> [flagged EXCEPT !.lists[event] = Append(@, l)], raised |-> "no"]
        ELSE [radio |-> [flagged EXCEPT !.keys = @ \cup {event},
                                        !.lists[event] = << l >>],
              raised |-> "no"]

\* Radio.register
RadioRegister(r, l) ==
    LET event == r.objs[l].event
        flagged == [r EXCEPT !.objs[l].registered = TRUE]
    IN  IF r.objs[l].registered THEN [radio |-> r, raised |-> "ValueError"]
        ELSE IF event \in r.keys
        THEN IF InList(r.lists[event], l) THEN [radio |-> flagged, raised |-> "ValueError"]
             ELSE [radio |-> [flagged EXCEPT !.lists[event] = Append(@, l)],
                   raised |-> "no"]
        ELSE [radio |-> [flagged EXCEPT !.keys = @ \cup {event},
                                        !.lists[event] = << l >>],
              raised |-> "no"]

\* The body of the callback of listener l runs.
CallbackBody(r, l) ==
    LET does == r.objs[l].does
    IN  IF does = "remove" THEN ListenerRemove(r, l)
        ELSE IF does = "register" THEN RadioRegister(r, Enlisted)
        ELSE [radio |-> r, raised |-> IF does = "typeerror" THEN "TypeError" ELSE "no"]

\* self.callback(params) or self.callback(): Python raises TypeError without
\* entering the body when the arguments do not fit the signature.
Call(r, l, withParams) ==
    LET fits == IF withParams THEN r.objs[l].sig \in {"params", "optional"}
                ELSE r.objs[l].sig \in {"none", "optional"}
        out == CallbackBody(r, l)
    IN  IF fits THEN [radio |-> out.radio, raised |-> out.raised, entered |-> 1]
        ELSE [radio |-> r, raised |-> "TypeError", entered |-> 0]

\* Listener.ping: try: self.callback(params) except TypeError: self.callback()
Ping(r, l) ==
    LET first == Call(r, l, TRUE)
        second == Call(first.radio, l, FALSE)
    IN  IF first.raised = "TypeError"
        THEN [radio |-> second.radio, raised |-> second.raised,
              entered |-> first.entered + second.entered]
        ELSE first

\* Radio.broadcast: for listener in cls.listeners.get(event, []), a loop over
\* the list itself that goes by position, whatever the callbacks do to it; an
\* exception that a ping lets through ends it.
RECURSIVE BroadcastFrom(_, _, _, _, _)
BroadcastFrom(r, event, i, pings, entered) ==
    IF i > Len(ListenersOf(r, event))
    THEN [radio |-> r, pings |-> pings, entered |-> entered, raised |-> "no"]
    ELSE LET l == ListenersOf(r, event)[i]
             out == Ping(r, l)
         IN  IF out.raised # "no"
             THEN [radio |-> out.radio, pings |-> Append(pings, l),
                   entered |-> Append(entered, out.entered), raised |-> out.raised]
             ELSE BroadcastFrom(out.radio, event, i + 1, Append(pings, l),
                                Append(entered, out.entered))

RadioBroadcast(r, event) == BroadcastFrom(r, event, 1, << >>, << >>)

\* Listener(event, callback)
Listener(event, does, sig) ==
    [event |-> event, registered |-> FALSE, does |-> does, sig |-> sig]

\* Listener(event, callback) with a callback of one of the kinds that takes
\* the params.
NewListener(kinds) ==
    \E event \in EventKeys : \E does \in kinds :
        /\ Len(radio.objs) < MaxListeners
        /\ radio' = [radio EXCEPT
                        !.objs = Append(@, Listener(event, does, "params")),
                        !.last = [NoRadioCall EXCEPT !.op = "new",
                                                     !.arg = Len(radio.objs) + 1]]
        /\ UNCHANGED <<loopVars, bodyVars, heap, clock, game, drawq>>

\* Radio.listen(event, func), func a callback of one of the kinds and
\* signatures: the listener is made and registered.
Listen(kinds, sigs) ==
    \E event \in EventKeys : \E does \in kinds : \E sig \in sigs :
        /\ Len(radio.objs) < MaxListeners
        /\ LET l == Len(radio.objs) + 1
               made == [radio EXCEPT !.objs = Append(@, Listener(event, does, sig))]
               out == RadioRegister(made, l)
           IN  radio' = [out.radio EXCEPT
                            !.last = [NoRadioCall EXCEPT !.op = "listen", !.arg = l,
                                                         !.raised = out.raised]]
        /\ UNCHANGED <<loopVars, bodyVars, heap, clock, game, drawq>>

Register ==
    \E l \in 1..Len(radio.objs) :
        LET out == RadioRegister(radio, l)
        IN  /\ radio' = [out.radio EXCEPT
                            !.last = [NoRadioCall EXCEPT !.op = "register", !.arg = l,
                                                         !.raised = out.raised]]
            /\ UNCHANGED <<loopVars, bodyVars, heap, clock, game, drawq>>

Remove ==
    \E l \in 1..Len(radio.objs) :
        LET out == ListenerRemove(radio, l)
        IN  /\ radio' = [out.radio EXCEPT
                            !.last = [NoRadioCall EXCEPT !.op = "remove", !.arg = l,
                                                         !.raised = out.raised]]
            /\ UNCHANGED <<loopVars, bodyVars, heap, clock, game, drawq>>

Broadcast ==
    \E event \in EventKeys :
        LET out == RadioBroadcast(radio, event)
        IN  /\ radio' = [out.radio EXCEPT
                            !.last = [NoRadioCall EXCEPT !.op = "broadcast",
                                                         !.arg = event,
                                                         !.raised = out.raised,
                                                         !.pings = out.pings,
                                                         !.entered = out.entered]]
            /\ UNCHANGED <<loopVars, bodyVars, heap, clock, game, drawq>>

\* Listeners whose callbacks differ in signature and may raise TypeError.
PingNext == Listen(BodyKinds, Signatures) \/ Remove \/ Broadcast

RadioNext ==
    \/ NewListener(CallbackKinds)
    \/ Listen(CallbackKinds, {"params"})
    \/ Register
    \/ Remove
    \/ Broadcast

\* The calls that change the registry, on listeners whose callbacks leave
\* the radio alone.
RegistryNext ==
    \/ NewListener({"quiet"})
    \/ Listen({"quiet"}, {"params"})
    \/ Register
    \/ Remove

\* -----------------------------------------------------------------
\* Draw: the frame queue (draw.py).
\* -----------------------------------------------------------------

MaxTasks == 3

\* The z_index values tasks are pushed with.
ZIndexes == {0, 1}

\* What the function of a task may do: draw only, push a further task, or
\* raise.
TaskKinds == {"draw", "push", "raise"}

\* DrawTask(z_index, callback). id numbers the tasks in push order and frame
\* is the loop iteration the push was made in; a task of kind "push" pushes
\* a drawing task with z_index childz.
DrawTask(id, z_index, does, childz, frame) ==
    [id |-> id, priority |-> z_index, does |-> does, childz |-> childz, frame |-> frame]

\* Draw.push: cls._queue.append(DrawTask(z_index, callback))
push(d, z_index, does, childz) ==
    [d EXCEPT !.queue = Append(@, DrawTask(d.next, z_index, does, childz, d.frame)),
              !.next = @ + 1]

\* One step of list.sort: task goes behind the tasks sorted so far whose
\* priority is not greater (the sort is stable).
InsertTask(sorted, task) ==
    LET n == Cardinality({i \in 1..Len(sorted) : sorted[i].priority <= task.priority})
    IN  SubSeq(sorted, 1, n) \o << task >> \o SubSeq(sorted, n + 1, Len(sorted))

\* cls._queue.sort(key=lambda x: x.priority)
RECURSIVE SortByPriority(_)
SortByPriority(queue) ==
    IF queue = << >> THEN << >>
    ELSE InsertTask(SortByPriority(SubSeq(queue, 1, Len(queue) - 1)), queue[Len(queue)])

\* for task in cls._queue: task.func(), a loop over the queue itself, that
\* reaches what the functions append; then cls._queue.clear(), unless a
\* function raised.
RECURSIVE RunTasks(_, _, _)
RunTasks(d, i, ran) ==
    IF i > Len(d.queue) THEN [draw |-> [d EXCEPT !.queue = << >>], ran |-> ran, raised |-> FALSE]
    ELSE LET task == d.queue[i]
         IN  IF task.does = "raise"
             THEN [draw |-> d, ran |-> Append(ran, task), raised |-> TRUE]
             ELSE RunTasks(IF task.does = "push" THEN push(d, task.childz, "draw", 0) ELSE d,
                           i + 1, Append(ran, task))

\* Draw.dump
dump(d) ==
    IF d.queue = << >> THEN [draw |-> d, ran |-> << >>, raised |-> FALSE]
    ELSE RunTasks([d EXCEPT !.queue = SortByPriority(@)], 1, << >>)

\* Draw.push, called by the drawing code of a frame.
Push ==
    \E z_index \in ZIndexes : \E does \in TaskKinds : \E childz \in ZIndexes :
        /\ ~drawq.stopped
        /\ drawq.next <= MaxTasks
        /\ does # "push" => childz = 0
        /\ drawq' = [push(drawq, z_index, does, childz) EXCEPT
                        !.last = [NoDrawCall EXCEPT !.op = "push"]]
        /\ UNCHANGED <<loopVars, bodyVars, heap, clock, game, radio>>

\* Draw.dump as the loop calls it, once an iteration; an exception a task
\* raises leaves Game.loop.
Dump ==
    LET out == dump(drawq)
    IN  /\ ~drawq.stopped
        /\ drawq.frame < MaxFrames
        /\ drawq' = [out.draw EXCEPT
                        !.frame = @ + 1,
                        !.stopped = out.raised,
                        !.last = [NoDrawCall EXCEPT !.op = "dump", !.ran = out.ran,
                                                    !.raised = out.raised]]
        /\ UNCHANGED <<loopVars, bodyVars, heap, clock, game, radio>>

\* The cameras a queue_* call is given: none, or one with a z_index.
Cameras == {NoCamera} \cup {[given |-> TRUE, z_index |-> z] : z \in ZIndexes}

\* The queue_* functions, which share their first two lines.
QueueCalls == {"point", "line", "rect", "circle", "poly", "text", "texture", "surface"}

\* if camera is not None and camera.z_index < z_index: return
Culled(z_index, camera) == camera.given /\ camera.z_index < z_index

\* Draw.queue_point, queue_line, ..., queue_surface
queue(d, z_index, camera) ==
    IF Culled(z_index, camera) THEN d ELSE push(d, z_index, "draw", 0)

Queue ==
    \E call \in QueueCalls : \E z_index \in ZIndexes : \E camera \in Cameras :
        /\ ~drawq.stopped
        /\ drawq.next <= MaxTasks
        /\ drawq' = [queue(drawq, z_index, camera) EXCEPT
                        !.last = [NoDrawCall EXCEPT !.op = "queue", !.z_index = z_index,
                                                    !.camera = camera]]
        /\ UNCHANGED <<loopVars, bodyVars, heap, clock, game, radio>>

DrawNext == Push \/ Queue \/ Dump

\* The bodies as constructed, and no call made on them.
BodiesAtRest ==
    /\ bodies = [b \in Bodies |-> [pos |-> Vec(0, 0), velocity |-> Vec(0, 0),
                                   acceleration |-> Vec(0, 0), rotation |-> 0,
                                   angvel |-> 0, mass |-> 1,
                                   gravity |-> 0, friction |-> 1,
                                   min_speed |-> -60, max_speed |-> 60,
                                   grounded |-> FALSE, col_type |-> "DYNAMIC"]]
    /\ last = NoCall
    /\ calls = 0
    /\ deferred = << >>

\* The bodies as constructed, while only the scheduler runs.
BodiesIdle == BodiesAtRest /\ AuxIdle

\* The scheduler before its first frame, while only collision calls are made.
LoopIdle ==
    /\ state = RUNNING
    /\ hasScene = TRUE
    /\ physics_counter = 0
    /\ delta_time = 1
    /\ fixed_delta = 1
    /\ pc = "top"
    /\ do_physics = TRUE
    /\ frames = 0
    /\ fixedCount = 0
    /\ obs = [deltasUsed |-> {}, everPaused |-> FALSE,
              physicsRuns |-> 0, physicsDts |-> {}, exitBroadcasts |-> 0,
              gameUpdates |-> 0, sceneUpdates |-> 0, accumulated |-> 0,
              windowQuit |-> FALSE, exitSeen |-> 0, frame |-> NoFrame]

\* The scheduler alone.
InitLoop == LoopInit /\ BodiesIdle
SpecLoop == InitLoop /\ [][LoopNext]_vars

\* The scheduler alone, as the one thread that runs it: a pass of the
\* catch-up loop that can be made, and the step out of the loop, are made.
SpecLoopFair ==
    InitLoop /\ [][LoopNext]_vars /\ WF_vars(FixedUpdate) /\ WF_vars(FixedDone)

\* The collision calls alone.
InitBody == LoopIdle /\ BodyInit
SpecBody == InitBody /\ [][BodyNext]_vars

\* The collision calls alone, each with a callback that raises.
SpecThrow == InitBody /\ [][ThrowNext]_vars

\* Constructions of bodies and changes of their pose alone.
InitHitbox == LoopIdle /\ BodiesIdle
SpecHitbox == InitHitbox /\ [][HitboxNext]_vars

\* The frames of a capped loop alone.
InitCap ==
    /\ LoopIdle
    /\ BodiesAtRest
    /\ heap = HeapIdle
    /\ ClockInit
    /\ game = GameIdle
    /\ radio = RadioIdle
    /\ drawq = DrawIdle
SpecCap == InitCap /\ [][CappedFrame]_vars

\* The scenes of the game alone: additions, then the loop.
InitGame == LoopIdle /\ BodiesIdle
SpecGame == InitGame /\ [][GameNext]_vars

\* The frame queue alone.
InitDraw == LoopIdle /\ BodiesIdle
SpecDraw == InitDraw /\ [][DrawNext]_vars

\* The radio alone.
InitRadio == LoopIdle /\ BodiesIdle
SpecRadio == InitRadio /\ [][RadioNext]_vars

\* Radio.listen, Radio.register and Listener.remove alone.
InitRegistry == LoopIdle /\ BodiesIdle
SpecRegistry == InitRegistry /\ [][RegistryNext]_vars

\* The radio with callbacks of every signature.
InitPing == LoopIdle /\ BodiesIdle
SpecPing == InitPing /\ [][PingNext]_vars

\* The integration step and the force calls alone.
InitPhysics == LoopIdle /\ PhysicsInit
SpecPhysics == InitPhysics /\ [][PhysicsNext]_vars

\* Sequences of collide calls alone.
CollideNext == \E self \in Bodies : \E other \in Bodies \ {self} : Collide(self, other)
SpecCollide == InitBody /\ [][CollideNext]_vars

\* =================================================================
\* Properties of the scheduler (checked under SpecLoop)
\* =================================================================

\* The loop is between two iterations (or has ended).
BetweenFrames == pc \in {"top", "exited"}

\* C1: fixed-step determinism. From physics_counter = 0, with a current scene
\* that is never PAUSED and a constant frame delta d, after n iterations
\* (accumulated frame time T = n * d) the fixed-rate update has run exactly
\* floor(T / fixed_delta) times, whatever d is.
C1_FixedStepDeterminism ==
    (BetweenFrames /\ hasScene /\ ~obs.everPaused) =>
        \A d \in Deltas :
            obs.deltasUsed \subseteq {d} =>
                fixedCount = (frames * d) \div fixed_delta

C1_Witness ==
    /\ pc = "top" /\ hasScene /\ ~obs.everPaused
    /\ frames >= 2
    /\ Cardinality(obs.deltasUsed) = 1
    /\ delta_time \in obs.deltasUsed
    /\ fixedCount >= 1
    /\ physics_counter > 0

\* C2: outside the catch-up loop, so in particular at the end of every
\* iteration, 0 <= physics_counter < fixed_delta.
C2_RemainderBelowFixedDelta ==
    pc # "fixed" => (0 <= physics_counter /\ physics_counter < fixed_delta)

C2_Witness ==
    /\ pc = "top" /\ frames >= 2
    /\ Cardinality(obs.deltasUsed) >= 2
    /\ fixedCount >= 1
    /\ physics_counter > 0

\* C3: the integration step of a body with do_physics set runs once per fixed
\* tick, and every step uses dt = fixed_delta.
C3_PhysicsOncePerFixedTick ==
    (BetweenFrames /\ do_physics) =>
        /\ obs.physicsRuns = fixedCount
        /\ obs.physicsDts \subseteq {fixed_delta}

\* =================================================================
\* Properties of the collision calls (checked under SpecBody, SpecCollide)
\* =================================================================

\* The step is a call of collide that found a collision; self, other and the
\* CollisionInfo's (rounded) sep are those of last'.
CollideHit == last'.op = "collide" /\ last'.ret.hit /\ calls' = calls + 1

\* Body b is as it was, as far as a collision call can change it.
Untouched(b) ==
    /\ bodies'[b].pos = bodies[b].pos
    /\ bodies'[b].velocity = bodies[b].velocity
    /\ bodies'[b].grounded = bodies[b].grounded

\* C4: a DYNAMIC self against a STATIC other with sep.y > 0: one collide moves
\* self.pos by exactly -sep, sets self.velocity.y to 0 and self.grounded to
\* true, and leaves other's position, velocity and grounded flag unchanged.
C4_CollideStaticFloor ==
    [][(/\ CollideHit
        /\ bodies[last'.self].col_type = "DYNAMIC"
        /\ bodies[last'.other].col_type = "STATIC"
        /\ last'.ret.sep.y > 0)
       => /\ bodies'[last'.self].pos.x = bodies[last'.self].pos.x - last'.ret.sep.x
          /\ bodies'[last'.self].pos.y = bodies[last'.self].pos.y - last'.ret.sep.y
          /\ bodies'[last'.self].velocity.y = 0
          /\ bodies'[last'.self].grounded
          /\ Untouched(last'.other)]_vars

C4_Witness ==
    /\ last.op = "collide" /\ last.ret.hit /\ last.ret.sep.y > 0
    /\ bodies[last.self].col_type = "DYNAMIC"
    /\ bodies[last.other].col_type = "STATIC"
    /\ bodies[last.self].grounded
    /\ bodies[last.self].pos.y < 0
    /\ bodies[last.self].velocity.y = 0

\* C5: two DYNAMIC bodies with separation s: after self.collide(other), self.pos
\* has changed by exactly -s/2 and other.pos by exactly +s/2, and both
\* velocities are unchanged.
C5_DynamicPairSplit ==
    [][(/\ CollideHit
        /\ bodies[last'.self].col_type = "DYNAMIC"
        /\ bodies[last'.other].col_type = "DYNAMIC")
       => /\ 2 * (bodies'[last'.self].pos.x - bodies[last'.self].pos.x) = 0 - last'.ret.sep.x
          /\ 2 * (bodies'[last'.self].pos.y - bodies[last'.self].pos.y) = 0 - last'.ret.sep.y
          /\ 2 * (bodies'[last'.other].pos.x - bodies[last'.other].pos.x) = last'.ret.sep.x
          /\ 2 * (bodies'[last'.other].pos.y - bodies[last'.other].pos.y) = last'.ret.sep.y
          /\ bodies'[last'.self].velocity = bodies[last'.self].velocity
          /\ bodies'[last'.other].velocity = bodies[last'.other].velocity]_vars

C5_Witness ==
    /\ last.op = "collide" /\ last.ret.hit
    /\ last.ret.sep.x # 0 /\ last.ret.sep.y # 0
    /\ bodies[last.self].col_type = "DYNAMIC"
    /\ bodies[last.other].col_type = "DYNAMIC"
    /\ bodies[last.self].pos # bodies[last.other].pos
    /\ calls = MaxCalls

\* C6: the mirror rule. With a STATIC self and a DYNAMIC other, collide leaves
\* self.pos and self.velocity unchanged, and changes other as the
\* other-is-STATIC branch would change self for separation -sep:
\* other.pos += sep, other.grounded = (sep.y < 0), other.velocity.y is zeroed
\* iff other.grounded, other.velocity.x is zeroed iff sep.x # 0.
C6_MirrorRule ==
    [][(/\ CollideHit
        /\ bodies[last'.self].col_type = "STATIC"
        /\ bodies[last'.other].col_type = "DYNAMIC")
       => /\ bodies'[last'.self].pos = bodies[last'.self].pos
          /\ bodies'[last'.self].velocity = bodies[last'.self].velocity
          /\ bodies'[last'.other].pos = VAdd(bodies[last'.other].pos, last'.ret.sep)
          /\ bodies'[last'.other].grounded = (last'.ret.sep.y < 0)
          /\ bodies'[last'.other].velocity.y =
                IF last'.ret.sep.y < 0 THEN 0 ELSE bodies[last'.other].velocity.y
          /\ bodies'[last'.other].velocity.x =
                IF last'.ret.sep.x # 0 THEN 0 ELSE bodies[last'.other].velocity.x
          /\ bodies'[last'.other] =
                CollideOtherStatic(bodies, last'.other, last'.self,
                                   VNeg(last'.ret.sep))[last'.other]]_vars

C6_Witness ==
    /\ last.op = "collide" /\ last.ret.hit
    /\ last.ret.sep.y < 0 /\ last.ret.sep.x = 0
    /\ bodies[last.self].col_type = "STATIC"
    /\ bodies[last.other].col_type = "DYNAMIC"
    /\ bodies[last.other].grounded
    /\ bodies[last.other].velocity.y = 0
    /\ bodies[last.other].velocity.x # 0

\* C7: velocity damping of collide against a STATIC other: self.velocity.x
\* becomes 0 iff the rounded sep.x is non-zero, self.velocity.y becomes 0 iff
\* sep.y > 0; otherwise the component keeps its value.
C7_VelocityDamping ==
    [][(CollideHit /\ bodies[last'.other].col_type = "STATIC")
       => /\ bodies'[last'.self].velocity.x =
                IF last'.ret.sep.x # 0 THEN 0 ELSE bodies[last'.self].velocity.x
          /\ bodies'[last'.self].velocity.y =
                IF last'.ret.sep.y > 0 THEN 0 ELSE bodies[last'.self].velocity.y]_vars

C7_Witness ==
    /\ last.op = "collide" /\ last.ret.hit
    /\ bodies[last.other].col_type = "STATIC"
    /\ last.sat.sep.x # 0 /\ last.ret.sep.x = 0 /\ last.ret.sep.y < 0
    /\ bodies[last.self].velocity.x # 0
    /\ bodies[last.self].velocity.y # 0

C9_GroundedIsRecomputed ==
    [][(last'.op = "collide" /\ calls' = calls + 1)
       => \A b \in {last'.self, last'.other} :
            bodies'[b].grounded
                => (last'.ret.hit /\ bodies'[b].pos.y < bodies[b].pos.y)]_vars

\* C10: in collide and bounce the callback runs once if a collision was found
\* and not at all otherwise, and it runs after every position and velocity
\* change of the call: what it sees of the bodies is their state on return.
C10_CallbackAfterResolution ==
    last.op \in {"collide", "bounce"} =>
        /\ last.cbCount = (IF last.ret.hit THEN 1 ELSE 0)
        /\ last.ret.hit => last.cbSeen = {bodies}

C10_Witness ==
    /\ last.op \in {"collide", "bounce"} /\ last.ret.hit
    /\ last.cbCount = 1
    /\ last.ret.sep.x # 0
    /\ \E b \in Bodies : bodies[b].pos # Vec(0, 0) /\ bodies[b].velocity.x = 0

\* The step is a call of op.
CallOf(op) == last'.op = op /\ calls' = calls + 1

\* C11: collide, bounce and overlap return the collision info of the check they
\* ran (none when the shapes do not overlap); what is returned is what the
\* callback was given, and a non-none value is returned exactly when the
\* callback was fired.
C11_ReturnsCollisionInfo ==
    last.op \in {"collide", "bounce", "overlap"} =>
        /\ last.ret.hit = last.sat.hit
        /\ last.ret.hit <=> (last.cbCount = 1)
        /\ ~last.ret.hit <=> (last.cbCount = 0)
        /\ last.ret.hit => last.cbArg = {last.ret}
        /\ last.ret.hit =>
              last.ret.sep = IF last.op = "overlap" THEN last.sat.sep
                             ELSE VRound(last.sat.sep)

C11_Witness ==
    /\ last.op = "bounce" /\ last.ret.hit
    /\ last.cbArg = {last.ret}
    /\ last.ret.sep # last.sat.sep
    /\ calls = MaxCalls

\* C12: overlap is detection only: whether or not the shapes overlap it leaves
\* position, velocity, acceleration and rotation of both bodies unchanged; its
\* only effect is the callback, fired when the result is not none.
C12_OverlapDetectsOnly ==
    [][CallOf("overlap") =>
        /\ \A b \in Bodies :
            /\ bodies'[b].pos = bodies[b].pos
            /\ bodies'[b].velocity = bodies[b].velocity
            /\ bodies'[b].acceleration = bodies[b].acceleration
            /\ bodies'[b].rotation = bodies[b].rotation
        /\ last'.cbCount = (IF last'.sat.hit THEN 1 ELSE 0)]_vars

C12_Witness ==
    /\ last.op = "overlap" /\ last.ret.hit /\ last.cbCount = 1
    /\ last.ret.sep.x # 0 /\ last.ret.sep.y # 0
    /\ \E b \in Bodies : bodies[b].pos # Vec(0, 0)

\* C13: bounce corrects positions only, with the branching of collide: from
\* the same state and SAT result the positions of both bodies after
\* self.bounce(other) are those after self.collide(other), and bounce changes
\* no velocity.
C13_BounceMovesLikeCollide ==
    [][CallOf("bounce") =>
        \A b \in Bodies :
            /\ bodies'[b].pos =
                  collide(bodies, last'.self, last'.other, last'.sat).bodies[b].pos
            /\ bodies'[b].velocity = bodies[b].velocity]_vars

C13_Witness ==
    /\ last.op = "bounce" /\ last.ret.hit
    /\ last.ret.sep.x # 0
    /\ bodies[last.other].col_type = "STATIC"
    /\ bodies[last.self].pos # Vec(0, 0)
    /\ bodies[last.self].velocity.x # 0

\* =================================================================
\* Properties of the scheduler while paused and when stopped (checked under
\* SpecLoop)
\* =================================================================

\* C18: while the state is PAUSED (when the iteration comes to its scene), a
\* loop iteration runs neither the scene's variable-rate update nor any
\* fixed-rate update and leaves physics_counter unchanged: paused time is
\* never accumulated, so that the fixed updates run so far and the remainder
\* always add up to the deltas of the frames that were not paused; the
\* game-level update still runs once in that iteration.
C18_PausedIteration ==
    [][/\ (pc = "scene" /\ hasScene /\ state = PAUSED) =>
            /\ pc' = "render"
            /\ obs'.frame.paused
       /\ (pc = "render" /\ obs.frame.paused) =>
            /\ obs.frame.scene = 0
            /\ obs.frame.fixed = 0
            /\ obs.frame.game = 1
            /\ physics_counter = obs.frame.counter
            /\ physics_counter' = obs.frame.counter
            /\ fixedCount' * fixed_delta + physics_counter' = obs'.accumulated]_vars

\* A paused iteration has ended with a remainder carried over it, after a
\* frame that was not paused.
C18_Witness ==
    /\ pc = "top"
    /\ obs.frame.paused
    /\ obs.frame.game = 1
    /\ physics_counter > 0
    /\ obs.sceneUpdates > 0
    /\ frames > obs.sceneUpdates

\* C19: cancellation. If the state becomes STOPPED during an iteration (and
\* is STOPPED when the iteration ends), that iteration still completes all
\* of its remaining steps: the scene is updated, since STOPPED is not
\* PAUSED, the catch-up loop runs until the remainder is below fixed_delta,
\* and the frame is rendered; the loop then ends without any further game
\* update, scene update, fixed update or render, and every iteration that
\* was begun has been rendered.
C19_StopAfterIteration ==
    [][/\ (pc = "scene" /\ hasScene /\ state = STOPPED) =>
            (pc' = "fixed" /\ obs'.frame.scene = 1)
       /\ (pc = "fixed" /\ pc' = "render") => physics_counter < fixed_delta
       /\ (pc = "fixed" /\ FixedLoopCond(physics_counter, fixed_delta)) =>
            (pc' = "fixed" /\ fixedCount' = fixedCount + 1)
       /\ (pc = "render") => (pc' = "top" /\ frames' = frames + 1)
       /\ (pc = "top" /\ state = STOPPED) =>
            /\ pc' = "exited"
            /\ frames' = frames
            /\ fixedCount' = fixedCount
            /\ obs'.gameUpdates = obs.gameUpdates
            /\ obs'.sceneUpdates = obs.sceneUpdates
            /\ obs.gameUpdates = frames
       /\ pc # "exited"]_vars

\* The loop has ended, without a quit event of the window, after an
\* iteration whose scene update set the state to STOPPED while fixed updates
\* were due, and which ran them.
C19_Witness ==
    /\ pc = "exited"
    /\ ~obs.windowQuit
    /\ obs.frame.stopped = "scene"
    /\ frames > 0
    /\ frames < MaxFrames
    /\ obs.frame.fixed > 1
    /\ obs.frame.scene = 1
    /\ obs.gameUpdates = frames

\* C32: when event polling sees a quit signal, the state becomes STOPPED and
\* the loop ends in that same iteration: EXIT is broadcast exactly once, to
\* listeners that find the state as it was before, and no game update,
\* scene update, fixed update, drain of the deferred calls or render runs
\* after the signal is seen.
C32_QuitEndsLoopAtOnce ==
    /\ [](pc = "exited" => (state = STOPPED /\ obs.exitBroadcasts = 1))
    /\ [](pc # "exited" => obs.exitBroadcasts = 0)
    /\ [][/\ pc' = "exited" =>
              /\ pc = "top"
              /\ obs'.exitSeen = state
              /\ obs'.gameUpdates = obs.gameUpdates
              /\ obs'.sceneUpdates = obs.sceneUpdates
              /\ obs'.frame = obs.frame
              /\ obs'.physicsRuns = obs.physicsRuns
              /\ fixedCount' = fixedCount
              /\ frames' = frames
              /\ physics_counter' = physics_counter
          /\ pc # "exited"]_vars

\* The window sent a quit event while the game was paused, after an
\* iteration had run: the loop has ended and the EXIT listeners found the
\* state PAUSED.
C32_Witness ==
    /\ pc = "exited"
    /\ obs.windowQuit
    /\ obs.exitSeen = PAUSED
    /\ state = STOPPED
    /\ obs.exitBroadcasts = 1
    /\ frames > 0
    /\ obs.gameUpdates = frames

\* C39: whatever fixed_delta > 0 and the frame delta are, the catch-up loop
\* of an iteration terminates, after exactly floor(physics_counter /
\* fixed_delta) fixed updates, physics_counter being the counter with the
\* delta of the frame added; the updates of one frame are not capped, so a
\* frame delta of k * fixed_delta gives k fixed updates in that frame.
C39_CatchUpTerminates ==
    /\ [][(pc = "fixed" /\ pc' = "render") =>
            /\ obs.frame.fixed = (obs.frame.counter + delta_time) \div fixed_delta
            /\ physics_counter = (obs.frame.counter + delta_time) % fixed_delta
            /\ (obs.frame.counter = 0 /\ delta_time % fixed_delta = 0) =>
                  obs.frame.fixed * fixed_delta = delta_time]_vars
    /\ [][(pc = "fixed" /\ pc' = "fixed") =>
            /\ physics_counter' = physics_counter - fixed_delta
            /\ physics_counter' >= 0
            /\ obs'.frame.fixed = obs.frame.fixed + 1]_vars
    /\ (pc = "fixed" ~> pc = "render")

\* A frame as long as the longest delta, with fixed_delta = 1 and nothing
\* left over from the frame before, has run as many fixed updates as the
\* delta has milliseconds and has left the loop.
C39_Witness ==
    /\ pc = "render"
    /\ fixed_delta = 1
    /\ delta_time = MaxDelta
    /\ obs.frame.counter = 0
    /\ obs.frame.fixed = MaxDelta
    /\ physics_counter = 0

\* C24: the queue of delayed calls, which carries the resets of impulses, is
\* drained exactly once per fixed tick: an iteration drains it as many times
\* as it runs fixed updates, so not at all when it runs none (while PAUSED,
\* for one) and k times when it runs k.
C24_DrainedPerFixedTick ==
    pc = "render" => obs.frame.drains = obs.frame.fixed

\* =================================================================
\* Properties of the integration step and of the forces (checked under
\* SpecPhysics)
\* =================================================================

\* A call of the given kind on a body has just returned without raising.
Did(op) == last'.op = op /\ calls' = calls + 1 /\ ~last'.raised

Stepped(b) == last.op = "physics" /\ last.self = b

\* C15: position and rotation update of one integration step. After the
\* velocity update the position changes by exactly the step's new velocity
\* times dt and the rotation by the angular velocity times dt; the step
\* changes neither the acceleration, nor the angular velocity, nor the mass.
C15_PositionRotationUpdate ==
    [][Did("physics") =>
        LET old == bodies[last'.self]
            new == bodies'[last'.self]
            dt == last'.dt
        IN  /\ new.pos.x = old.pos.x + new.velocity.x * dt
            /\ new.pos.y = old.pos.y + new.velocity.y * dt
            /\ new.rotation = old.rotation + old.angvel * dt
            /\ new.acceleration = old.acceleration
            /\ new.angvel = old.angvel
            /\ new.mass = old.mass]_vars

\* A second step has run on a turning body under a force: the velocity it
\* moved with differs on both axes from the one the first step left, which
\* shows in a position that is not a multiple of the velocity.
C15_Witness ==
    /\ Stepped("a")
    /\ calls = MaxOps
    /\ bodies["a"].angvel # 0
    /\ bodies["a"].rotation > bodies["a"].angvel * last.dt
    /\ bodies["a"].acceleration.x # 0
    /\ bodies["a"].velocity.x > 0
    /\ bodies["a"].velocity.y > 0
    /\ bodies["a"].pos.x > bodies["a"].velocity.x * last.dt

\* C16: set_force(f) replaces the acceleration by f / mass whatever it was
\* before, so that it is idempotent and cancels every earlier add_force;
\* add_force(f) adds f / mass to the acceleration, so that two add_force
\* calls give the same acceleration in either order; neither call changes
\* the velocity or the position. (f / mass is the vector q with
\* q * mass = f.)
C16_ForceAlgebra ==
    [][(Did("set_force") \/ Did("add_force")) =>
        LET old == bodies[last'.self]
            new == bodies'[last'.self]
            f == last'.force
            base == IF last'.op = "set_force" THEN Vec(0, 0) ELSE old.acceleration
        IN  /\ (new.acceleration.x - base.x) * old.mass = f.x
            /\ (new.acceleration.y - base.y) * old.mass = f.y
            /\ new.velocity = old.velocity
            /\ new.pos = old.pos
            /\ \A g \in Forces :
                /\ set_force(new, f).acceleration = set_force(old, f).acceleration
                /\ set_force(add_force(new, g), f).acceleration
                      = set_force(old, f).acceleration
                /\ add_force(add_force(new, f), g).acceleration
                      = add_force(add_force(new, g), f).acceleration]_vars

\* set_force has just replaced, on a moving body, an acceleration that an
\* earlier call had left at something else than (0, 0) and than f / mass.
C16_Witness ==
    /\ last.op = "set_force"
    /\ ~last.raised
    /\ last.was # Vec(0, 0)
    /\ last.was # bodies[last.self].acceleration
    /\ bodies[last.self].velocity # Vec(0, 0)
    /\ bodies[last.self].pos # Vec(0, 0)
    /\ bodies[last.self].acceleration.y * bodies[last.self].mass = last.force.y
    /\ last.force = Vec(0, -500)

\* C17: set_impulse(f, t) sets the acceleration to f / mass at once and
\* returns without waiting (f = (0, -500) and mass 10 give (0, -50)); it
\* registers exactly one delayed call, with delay t, and when that call fires
\* the acceleration becomes (0, 0).
C17_ImpulseThenReset ==
    [][/\ Did("set_impulse") =>
            LET old == bodies[last'.self]
                new == bodies'[last'.self]
            IN  /\ new.acceleration.x * old.mass = last'.force.x
                /\ new.acceleration.y * old.mass = last'.force.y
                /\ (last'.force = Vec(0, -500) /\ old.mass = 10)
                      => new.acceleration = Vec(0, -50)
                /\ deferred' = Append(deferred, [body |-> last'.self,
                                                 delay |-> last'.time])
       /\ Did("fire") =>
            /\ bodies'[last'.self].acceleration = Vec(0, 0)
            /\ Len(deferred') = Len(deferred) - 1
            /\ \E i \in 1..Len(deferred) :
                  deferred[i] = [body |-> last'.self, delay |-> last'.time]]_vars

\* The delayed call of an impulse of (0, -500) on the body of mass 10 has
\* fired after the body had moved under the impulse.
C17_Witness ==
    /\ last.op = "fire"
    /\ last.was = Vec(0, -50)
    /\ bodies[last.self].mass = 10
    /\ bodies[last.self].acceleration = Vec(0, 0)
    /\ bodies[last.self].velocity.y = 50
    /\ deferred = << >>

\* C34: the reset that set_impulse registers sets the acceleration to zero
\* unconditionally when it fires, whatever force a later set_force,
\* add_force or set_impulse has put on the body meanwhile, so that of two
\* overlapping impulses the later one ends when the reset of the other
\* fires; a reset that fires leaves the other pending resets in the queue,
\* and no force call removes one, so each impulse's own reset still fires.
C34_ResetIsUnconditional ==
    [][/\ Did("fire") =>
            /\ bodies'[last'.self].acceleration = Vec(0, 0)
            /\ \A b \in Bodies \ {last'.self} : bodies'[b] = bodies[b]
            /\ \E i \in 1..Len(deferred) :
                  /\ deferred[i] = [body |-> last'.self, delay |-> last'.time]
                  /\ deferred' = SubSeq(deferred, 1, i - 1)
                                    \o SubSeq(deferred, i + 1, Len(deferred))
       /\ \A op \in {"set_force", "add_force", "set_impulse", "physics"} :
            CallOf(op) =>
                /\ SubSeq(deferred', 1, Len(deferred)) = deferred
                /\ Len(deferred') = Len(deferred) +
                        (IF op = "set_impulse" /\ ~last'.raised THEN 1 ELSE 0)]_vars

\* Two impulses were put on the body of mass 10, the later one with the
\* force (20, 10); the reset with delay 100 has fired while the body had the
\* acceleration (2, 1) of the later impulse, which is gone, and the reset
\* with delay 500 is still pending.
C34_Witness ==
    /\ last.op = "fire"
    /\ last.time = 100
    /\ last.was = Vec(2, 1)
    /\ bodies[last.self].mass = 10
    /\ bodies[last.self].acceleration = Vec(0, 0)
    /\ deferred = << [body |-> last.self, delay |-> 500] >>

\* C20: constructing a RigidBody with a mass <= 0 fails at construction, so
\* that no body with a zero or negative mass ever exists and set_force and
\* add_force never divide by a mass that is not positive.
C20_NoNonPositiveMass ==
    /\ \A b \in Bodies : bodies[b].mass > 0
    /\ (last.op \in {"set_force", "add_force", "set_impulse"} =>
            /\ bodies[last.self].mass > 0
            /\ ~last.raised)

\* =================================================================
\* Properties of the collision calls: raising callbacks, rounding
\* =================================================================

\* C21: an exception raised by a collision callback leaves collide, bounce or
\* overlap at once: the call returns no collision info, and the engine rolls
\* nothing back, so the position and the velocity of both bodies are those
\* the same call leaves when its callback returns.
C21_CallbackExceptionPropagates ==
    [][\A op \in {"collide", "bounce", "overlap"} :
        (CallOf(op) /\ last'.sat.hit) =>
            LET normal == IF op = "collide"
                            THEN collide(bodies, last'.self, last'.other, last'.sat)
                          ELSE IF op = "bounce"
                            THEN bounce(bodies, last'.self, last'.other, last'.sat)
                          ELSE overlap(bodies, last'.self, last'.other, last'.sat)
            IN  /\ last'.cbCount = 1
                /\ last'.raised
                /\ ~last'.returned
                /\ \A b \in Bodies :
                    /\ bodies'[b].pos = normal.bodies[b].pos
                    /\ bodies'[b].velocity = normal.bodies[b].velocity
                    /\ bodies'[b].grounded = normal.bodies[b].grounded]_vars

\* The callback of a collide against a STATIC body has raised after the call
\* had moved the caller and zeroed its velocity.
C21_Witness ==
    /\ last.op = "collide"
    /\ last.raised
    /\ ~last.returned
    /\ bodies[last.other].col_type = "STATIC"
    /\ bodies[last.self].col_type = "DYNAMIC"
    /\ calls = 1
    /\ bodies[last.self].pos # Vec(0, 0)
    /\ bodies[last.self].velocity = Vec(0, 0)

C33_StaticNeverMoved ==
    [][\A op \in {"collide", "bounce"} : \A b \in Bodies :
        (CallOf(op) /\ bodies[b].col_type = "STATIC") =>
            /\ bodies'[b].pos = bodies[b].pos
            /\ bodies'[b].velocity = bodies[b].velocity]_vars

\* C37: when the overlap test finds no collision, collide and bounce leave
\* position, velocity, acceleration and rotation of both bodies and the
\* grounded flag of other unchanged, do not invoke the callback and return
\* none; all they change is self.grounded, which becomes false.
C37_NoCollisionOnlyResetsGrounded ==
    [][\A op \in {"collide", "bounce"} :
        (CallOf(op) /\ ~last'.sat.hit) =>
            /\ \A b \in Bodies :
                /\ bodies'[b].pos = bodies[b].pos
                /\ bodies'[b].velocity = bodies[b].velocity
                /\ bodies'[b].acceleration = bodies[b].acceleration
                /\ bodies'[b].rotation = bodies[b].rotation
            /\ bodies'[last'.other].grounded = bodies[last'.other].grounded
            /\ bodies' = [bodies EXCEPT ![last'.self].grounded = FALSE]
            /\ last'.cbCount = 0
            /\ last'.cbArg = {}
            /\ last'.ret = NoInfo]_vars

\* A bounce has found no collision after an earlier call had moved and
\* grounded the other body, which is still where it was and grounded.
C37_Witness ==
    /\ last.op = "bounce" /\ ~last.sat.hit /\ ~last.ret.hit
    /\ last.cbCount = 0
    /\ last.wasGrounded[last.other]
    /\ bodies[last.other].grounded
    /\ bodies[last.other].pos # Vec(0, 0)
    /\ ~bodies[last.self].grounded

\* =================================================================
\* Properties of the construction of bodies (checked under SpecHitbox)
\* =================================================================

\* C23: each RigidBody owns its own hitbox. Two bodies never share a hitbox,
\* also when built from the same options or the same hitbox object; the
\* hitbox passed in the options is not bound to the new body by the
\* construction (it stays as it was); and the hitbox of each body reads the
\* position and the rotation of its own body only, after any sequence of
\* constructions and changes of pose.
C23_HitboxOwnedByBody ==
    [][/\ \A i \in 1..Len(heap'.rigid) : \A j \in 1..Len(heap'.rigid) :
            i # j => heap'.rigid[i].hitbox # heap'.rigid[j].hitbox
       /\ \A i \in 1..Len(heap'.rigid) :
            /\ heap'.polys[heap'.rigid[i].hitbox] = [pos_of |-> i, rot_of |-> i]
            /\ HitboxPose(heap', heap'.rigid[i].hitbox).pos = heap'.rigid[i].pos
            /\ HitboxPose(heap', heap'.rigid[i].hitbox).rotation = heap'.rigid[i].rotation
       /\ \A h \in 1..Len(heap.polys) : heap'.polys[h] = heap.polys[h]
       /\ Len(heap'.rigid) > Len(heap.rigid) =>
            heap'.rigid[Len(heap'.rigid)].hitbox # heap'.rigid[Len(heap'.rigid)].options]_vars

\* Two bodies have been built from the same Polygon and stand in different
\* poses; that Polygon is still bound to no body.
C23_Witness ==
    /\ Len(heap.rigid) = 2
    /\ heap.rigid[1].options = heap.rigid[2].options
    /\ heap.polys[heap.rigid[1].options] = Unbound
    /\ heap.rigid[1].pos # heap.rigid[2].pos
    /\ heap.rigid[1].rotation # heap.rigid[2].rotation

\* =================================================================
\* Properties of the frame cap (checked under SpecCap)
\* =================================================================

\* C25: when the frame rate is capped, the delay makes every iteration last
\* at least normal_delta milliseconds, whatever the work of each frame takes:
\* two successive frame starts are never less than the cap period apart.
C25_FrameLastsCapPeriod ==
    clock.frames > 0 =>
        /\ clock.now - clock.frame_start >= clock.normal_delta
        /\ clock.delta >= clock.normal_delta

\* =================================================================
\* Properties of the scenes of the game (checked under SpecGame)
\* =================================================================

\* C26: Game.set_scene takes effect on the next frame. A set_scene call made
\* at any point of an iteration (listener, delayed call, Game.update, scene
\* update, fixed update, draw) does not change which scene receives the
\* update, the fixed updates and the draw of that iteration: all go to the
\* scene that was current when the iteration began.
C26_SetSceneNextFrame ==
    \A call \in game.got : call[2] = game.began

\* C27: Game._add with name None generates a unique name, so that adding an
\* unnamed scene always succeeds, after any sequence of earlier additions,
\* named "scene<N>" or failed ones included.
C27_UnnamedAddSucceeds ==
    game.lastAdd.unnamed => ~game.lastAdd.failed

\* =================================================================
\* Properties of the radio (checked under SpecRadio)
\* =================================================================

\* C28: Listener.remove() on a listener that is not registered in the radio
\* raises ValueError and leaves Radio.listeners and the registered flag of
\* the listener as they were, also when no listener was ever registered for
\* the event key of that listener.
C28_RemoveUnregisteredRaises ==
    [][(/\ radio'.last.op = "remove"
        /\ ~InList(ListenersOf(radio, radio.objs[radio'.last.arg].event), radio'.last.arg))
        => /\ radio'.last.raised = "ValueError"
           /\ radio'.keys = radio.keys
           /\ radio'.lists = radio.lists
           /\ radio'.objs = radio.objs]_vars

\* C29: Radio.broadcast(event, params) pings every listener that is
\* registered for exactly that event key when it is called, once each and in
\* the order of registration, and pings no listener registered for another
\* key; broadcasting a key with no listeners does nothing.
C29_BroadcastPingsAllInOrder ==
    [][radio'.last.op = "broadcast" =>
        /\ radio'.last.pings = ListenersOf(radio, radio'.last.arg)
        /\ \A i \in 1..Len(radio'.last.pings) :
              radio.objs[radio'.last.pings[i]].event = radio'.last.arg
        /\ ListenersOf(radio, radio'.last.arg) = << >> =>
              (radio'.keys = radio.keys /\ radio'.lists = radio.lists
               /\ radio'.objs = radio.objs)]_vars

\* C35: every listener that is registered for an event when a broadcast of
\* that event begins is pinged exactly once by that broadcast, also when a
\* callback registers or removes listeners of the same event meanwhile; a
\* listener registered during the broadcast is not pinged by it.
C35_BroadcastPingsThoseRegisteredAtStart ==
    [][radio'.last.op = "broadcast" =>
        LET before == ListenersOf(radio, radio'.last.arg)
            pings == radio'.last.pings
        IN  /\ \A i \in 1..Len(before) :
                  Cardinality({j \in 1..Len(pings) : pings[j] = before[i]}) = 1
            /\ \A j \in 1..Len(pings) : InList(before, pings[j])]_vars

\* =================================================================
\* Properties of the registry of listeners (checked under SpecRegistry)
\* =================================================================

\* The places of listener l in Radio.listeners.
PlacesOf(r, l) ==
    {p \in EventKeys \X (1..Len(r.objs)) :
        p[2] <= Len(r.lists[p[1]]) /\ r.lists[p[1]][p[2]] = l}

\* C38: registry invariant. After any sequence of Radio.listen,
\* Radio.register and Listener.remove calls, failed ones included, every
\* listener occurs at most once in Radio.listeners, and its registered flag
\* is true exactly when it is in the list of its event; registering a
\* registered listener raises ValueError and changes nothing, and a listener
\* that is not registered (never registered, or removed) can be registered:
\* it goes to the end of the list of its event.
C38_RegistryInvariant ==
    /\ [](\A l \in 1..Len(radio.objs) :
            /\ Cardinality(PlacesOf(radio, l)) <= 1
            /\ \A p \in PlacesOf(radio, l) : p[1] = radio.objs[l].event
            /\ radio.objs[l].registered
                  <=> InList(ListenersOf(radio, radio.objs[l].event), l))
    /\ [][radio'.last.op = "register" =>
            LET l == radio'.last.arg
                event == radio.objs[l].event
            IN  IF radio.objs[l].registered
                THEN /\ radio'.last.raised = "ValueError"
                     /\ radio'.keys = radio.keys
                     /\ radio'.lists = radio.lists
                     /\ radio'.objs = radio.objs
                ELSE /\ radio'.last.raised = "no"
                     /\ ListenersOf(radio', event) = Append(ListenersOf(radio, event), l)
                     /\ radio'.objs = [radio.objs EXCEPT ![l].registered = TRUE]]_vars

\* Registering a registered listener has raised ValueError, while the only
\* listener of the other event is out of the list it was once in.
C38_Witness ==
    /\ radio.last.op = "register"
    /\ radio.last.raised = "ValueError"
    /\ radio.objs[radio.last.arg].registered
    /\ Cardinality(PlacesOf(radio, radio.last.arg)) = 1
    /\ \E l \in 1..Len(radio.objs) :
        /\ radio.objs[l].event # radio.objs[radio.last.arg].event
        /\ radio.objs[l].event \in radio.keys
        /\ radio.lists[radio.objs[l].event] = << >>
        /\ ~radio.objs[l].registered

\* =================================================================
\* Properties of a ping (checked under SpecPing)
\* =================================================================

\* C36: for each ping the body of the callback is entered at most once. The
\* callback is called with the params, and again without arguments only if
\* it cannot take a params argument; a TypeError raised inside a callback
\* that takes params reaches the broadcaster without a second run of the
\* callback.
C36_CallbackEnteredOnce ==
    [][radio'.last.op = "broadcast" =>
        \A i \in 1..Len(radio'.last.pings) :
            LET l == radio.objs[radio'.last.pings[i]]
            IN  /\ radio'.last.entered[i] <= 1
                /\ (l.does = "typeerror" /\ l.sig # "none") =>
                      /\ radio'.last.raised = "TypeError"
                      /\ radio'.last.entered[i] = 1]_vars

\* =================================================================
\* Properties of the frame queue (checked under SpecDraw)
\* =================================================================

\* The tasks of ran whose id is id.
RunsOf(ran, id) == {i \in 1..Len(ran) : ran[i].id = id}

\* C30: Draw.dump runs every task pushed since the dump before it exactly
\* once, lower z_index first and equal z_index in push order, and leaves the
\* queue empty, so that a task runs in the frame it was queued in and in no
\* later one, also when a task pushes further tasks or raises during the
\* dump.
C30_DumpRunsAllInOrder ==
    [][drawq'.last.op = "dump" /\ drawq'.frame = drawq.frame + 1 =>
        LET ran == drawq'.last.ran
        IN  /\ \A i \in 1..Len(drawq.queue) :
                  Cardinality(RunsOf(ran, drawq.queue[i].id)) = 1
            /\ \A i \in 1..(drawq'.next - 1) :
                  Cardinality(RunsOf(ran, i)) <= 1
            /\ \A i, j \in 1..Len(ran) :
                  i < j => \/ ran[i].priority < ran[j].priority
                           \/ ran[i].priority = ran[j].priority /\ ran[i].id < ran[j].id
            /\ \A i \in 1..Len(ran) : ran[i].frame = drawq.frame
            /\ drawq'.queue = << >>]_vars

\* C31: a queue_* call that is given a camera enqueues a draw task if and
\* only if z_index is less than the z_index of the camera, and enqueues
\* nothing otherwise, a z_index equal to that of the camera included.
C31_RendersOnlyBelowCamera ==
    [][drawq'.last.op = "queue" /\ drawq'.last.camera.given =>
        IF drawq'.last.z_index < drawq'.last.camera.z_index
        THEN /\ Len(drawq'.queue) = Len(drawq.queue) + 1
             /\ drawq'.queue[Len(drawq'.queue)].priority = drawq'.last.z_index
        ELSE drawq'.queue = drawq.queue]_vars

====
